---- MODULE Spec2Model ----
(***************************************************************************)
(* Model of the background report-job subsystem of acme-accounting:        *)
(* ReportsService (job registry, submission queue, processing loop,        *)
(* metrics aggregator, retention sweep, read operations), the              *)
(* ReportsController entry point that validates the report type, and       *)
(* TicketsController.create with the tables it reads and writes.           *)
(*                                                                         *)
(* Execution model: Node.js runs one callback at a time.  An HTTP request  *)
(* handler is one atomic step; a setImmediate callback together with the   *)
(* promise continuations (microtasks) it releases is one atomic step.      *)
(* setImmediate callbacks run in FIFO order (variable immediates).         *)
(***************************************************************************)
EXTENDS Integers, Sequences, FiniteSets, TLC

(* ------------------------------ bounds -------------------------------- *)
\* number of createJob calls explored
MaxJobs == 2
\* number of one-hour jumps of the clock explored
MaxTicks == 1

(* ------------------------- program constants -------------------------- *)
\* 60 * 60 * 1000 ms, the retention horizon of cleanupOldJobs
HourMs == 3600000
\* legacyComparisonData.avgSyncResponseTime
LegacyBaseline == 10000

\* number of TicketsController.create calls explored
MaxCalls == 2
\* number of rows of table User explored
MaxUsers == 2

\* an optional number field that is not set (timestamps.started?, ...)
NoTime == -1
\* an optional string field that is not set (errorMessage?)
NoError == "<undefined>"
\* a request without a ?type= query parameter
Absent == "<absent>"

REPORT_TYPES == <<"accounts", "yearly", "fs", "all">>
ReportTypes == {REPORT_TYPES[i] : i \in 1..Len(REPORT_TYPES)}
\* what a caller may send as ?type=
RequestTypes == ReportTypes \cup {"invalid-type", "", Absent}

\* wall-clock cost of one createJob call (performance.now() difference)
ResponseTimes == {1, 2}
\* wall-clock cost of one report-generator call
Durations == {1}
\* time between the two completion stamps of a failing job: the stamp of
\* processJob's finally block is followed by process.memoryUsage() and a
\* promise continuation before processQueue's catch block stamps again
CatchDelays == {1}
\* messages of the errors the file operations of a generator can raise
ErrorMessages == {"ENOENT", "EACCES"}
Outcomes == {"ok"} \cup ErrorMessages

JobIds == 1..MaxJobs

VARIABLES
  jobs,           \* ReportsService.jobs: jobId -> JobData
  jobQueue,       \* ReportsService.jobQueue
  isProcessing,   \* ReportsService.isProcessing
  systemMetrics,  \* ReportsService.systemMetrics
  immediates,     \* the event loop's queue of setImmediate callbacks
  now,            \* performance.now()
  nextId,         \* number of identifiers drawn from randomUUID so far, plus one
  genLog,         \* history: the report-generator calls made, in order
  unhandled,      \* an error escaped processQueue (unhandled rejection)
  detached        \* the heap: records deleted from the Map, as holders of an
                  \* earlier getJobStatus result still read them

\* the tickets controller and the database tables it works on
VARIABLES
  users,          \* table User, in order of creation (createdAt)
  tickets,        \* table Ticket: id -> row, committed rows only
  ticketSeq,      \* the last value drawn from the Ticket id sequence
  calls           \* the TicketsController.create calls: where each one stands

ticketVars == <<users, tickets, ticketSeq, calls>>

vars == <<jobs, jobQueue, isProcessing, systemMetrics, immediates, now,
          nextId, genLog, unhandled, detached, users, tickets, ticketSeq,
          calls>>

(* ----------------------------- arithmetic ----------------------------- *)
Abs(x) == IF x < 0 THEN -x ELSE x
Max(a, b) == IF a >= b THEN a ELSE b

RECURSIVE GCD(_, _)
GCD(a, b) == IF b = 0 THEN a ELSE GCD(b, a % b)

\* A JavaScript number is an IEEE 754 double.  One that equals n / d for
\* integers |n| < 2^30 and a power of two d <= 2^30 is kept as that fraction in
\* lowest terms, <<n, d>>.  Any other one is kept as <<negative, m, e>> and
\* stands for m * 2^e, negated where negative holds: m is its significand of
\* exactly 53 bits, written as a numeral, and e any integer.  The numbers of
\* this program come from integers below 2^31 by a few operations, so that no
\* infinity, NaN, subnormal or negative zero arises among them
Num(n, d) ==
  IF n = 0 THEN <<0, 1>>
  ELSE LET g == GCD(Abs(n), d) IN <<n \div g, d \div g>>

Zero == <<0, 1>>
SmallLimit == 2 ^ 30
IsSmall(x) == Len(x) = 2

\* the number of bits of n, for 0 <= n < 2^31, found by halving: of the 4,
\* the 8 and the 16 lowest bits, then of all
BitLen4(n) == IF n >= 4 THEN (IF n >= 8 THEN 4 ELSE 3) ELSE (IF n >= 2 THEN 2 ELSE n)
BitLen8(n) == IF n >= 16 THEN 4 + BitLen4(n \div 16) ELSE BitLen4(n)
BitLen16(n) == IF n >= 256 THEN 8 + BitLen8(n \div 256) ELSE BitLen8(n)
BitLen(n) == IF n >= 65536 THEN 16 + BitLen16(n \div 65536) ELSE BitLen16(n)

\* the number of zero bits n ends with, for 0 < n < 2^31
TrailingZeros(n) ==
  CHOOSE t \in 0..30 : n % 2 ^ t = 0 /\ (n \div 2 ^ t) % 2 = 1

\* A numeral is a natural number of any size, written as its limbs: its
\* digits in base 2^15, most significant first, without leading zeros
LimbBits == 15
Limb == 2 ^ LimbBits

Front(a) == SubSeq(a, 1, Len(a) - 1)
Last(a) == IF a = <<>> THEN 0 ELSE a[Len(a)]

\* the limbs without their leading zeros
RECURSIVE NatStrip(_)
NatStrip(a) == IF a = <<>> \/ a[1] # 0 THEN a ELSE NatStrip(Tail(a))

\* the numeral of n, for 0 <= n < 2^31
NatOf(n) == NatStrip(<<n \div (Limb * Limb), (n \div Limb) % Limb, n % Limb>>)

\* the number a numeral below 2^31 stands for
NatVal(a) ==
  LET p == [i \in 1..(3 - Len(a)) |-> 0] \o a
  IN (p[1] * Limb + p[2]) * Limb + p[3]

NatBitLen(a) ==
  IF a = <<>> THEN 0 ELSE LimbBits * (Len(a) - 1) + BitLen(a[1])

\* bit j of a numeral, bit 0 being the least significant
NatBit(a, j) ==
  LET i == Len(a) - j \div LimbBits
  IN IF i < 1 THEN 0 ELSE (a[i] \div 2 ^ (j % LimbBits)) % 2

\* the bits of a numeral below bit j are all zero
NatLowZero(a, j) ==
  \A i \in 1..Len(a) :
    IF Len(a) - i < j \div LimbBits THEN a[i] = 0
    ELSE IF Len(a) - i = j \div LimbBits THEN a[i] % 2 ^ (j % LimbBits) = 0
    ELSE TRUE

\* a * 2^n
NatShiftLeft(a, n) ==
  LET s == n % LimbBits
      high == 2 ^ (LimbBits - s)
      p == <<0>> \o a \o <<0>>
  IN NatStrip([i \in 1..(Len(a) + 1) |->
                 (p[i] % high) * 2 ^ s + p[i + 1] \div high]
              \o [i \in 1..(n \div LimbBits) |-> 0])

\* a divided by 2^n, without its remainder
NatShiftRight(a, n) ==
  LET s == n % LimbBits
      low == 2 ^ s
      b == SubSeq(a, 1, Max(0, Len(a) - n \div LimbBits))
  IN NatStrip([i \in 1..Len(b) |->
                 b[i] \div low
                   + (IF i > 1 THEN (b[i - 1] % low) * 2 ^ (LimbBits - s)
                      ELSE 0)])

RECURSIVE NatAddCarry(_, _, _)
NatAddCarry(a, b, carry) ==
  IF a = <<>> /\ b = <<>> THEN (IF carry = 0 THEN <<>> ELSE <<carry>>)
  ELSE LET t == Last(a) + Last(b) + carry
       IN Append(NatAddCarry(Front(a), Front(b), t \div Limb), t % Limb)

NatAdd(a, b) == NatAddCarry(a, b, 0)

RECURSIVE NatSubBorrow(_, _, _)
NatSubBorrow(a, b, borrow) ==
  IF a = <<>> THEN <<>>
  ELSE LET t == Last(a) - Last(b) - borrow
       IN Append(NatSubBorrow(Front(a), Front(b), IF t < 0 THEN 1 ELSE 0),
                 (t + Limb) % Limb)

\* a - b, for a >= b
NatSub(a, b) == NatStrip(NatSubBorrow(a, b, 0))

NatLess(a, b) ==
  \/ Len(a) < Len(b)
  \/ /\ Len(a) = Len(b)
     /\ \E i \in 1..Len(a) :
          a[i] < b[i] /\ \A j \in 1..(i - 1) : a[j] = b[j]

\* the first i limbs of a, times k, plus carry, for k and carry below 2^16
RECURSIVE TimesLimbs(_, _, _, _)
TimesLimbs(a, k, i, carry) ==
  IF i = 0
  THEN (IF carry = 0 THEN <<>>
        ELSE IF carry < Limb THEN <<carry>>
        ELSE <<carry \div Limb, carry % Limb>>)
  ELSE LET t == a[i] * k + carry
       IN Append(TimesLimbs(a, k, i - 1, t \div Limb), t % Limb)

\* a * k, for 0 < k < 2^31
NatTimes(a, k) ==
  IF k < Limb THEN TimesLimbs(a, k, Len(a), 0)
  ELSE NatAdd(TimesLimbs(a, k % Limb, Len(a), 0),
              TimesLimbs(a, k \div Limb, Len(a), 0) \o <<0>>)

\* long division of r * 2^i + (the low i bits of limb) by k, for r < k < 2^31,
\* bit by bit: the quotient and the remainder
RECURSIVE DivBits(_, _, _, _)
DivBits(r, limb, k, i) ==
  IF i = 0 THEN [q |-> 0, r |-> r]
  ELSE LET bit == (limb \div 2 ^ (i - 1)) % 2
           take == r >= k - r - bit
           rest == DivBits(IF take THEN r - (k - r - bit) ELSE 2 * r + bit,
                           limb, k, i - 1)
       IN [q |-> (IF take THEN 2 ^ (i - 1) ELSE 0) + rest.q, r |-> rest.r]

\* one limb of a long division by k, the remainder so far being r < k
DivStep(r, limb, k) ==
  IF k < 2 * Limb
  THEN [q |-> (r * Limb + limb) \div k, r |-> (r * Limb + limb) % k]
  ELSE DivBits(r, limb, k, LimbBits)

\* long division of a significand m, followed by more zero limbs, by k, for
\* 0 < k < 2^31: the limbs of the quotient, 4 + more of them, and the
\* remainder; more is 1, 2 or 3
Quotient(m, k, more) ==
  LET s1 == DivStep(0, m[1], k)
      s2 == DivStep(s1.r, m[2], k)
      s3 == DivStep(s2.r, m[3], k)
      s4 == DivStep(s3.r, m[4], k)
      s5 == DivStep(s4.r, 0, k)
      s6 == DivStep(s5.r, 0, k)
      s7 == DivStep(s6.r, 0, k)
  IN IF more = 1 THEN [q |-> <<s1.q, s2.q, s3.q, s4.q, s5.q>>, r |-> s5.r]
     ELSE IF more = 2
     THEN [q |-> <<s1.q, s2.q, s3.q, s4.q, s5.q, s6.q>>, r |-> s6.r]
     ELSE [q |-> <<s1.q, s2.q, s3.q, s4.q, s5.q, s6.q, s7.q>>, r |-> s7.r]

\* the double of sign, significand m and exponent e, as it is kept
Pack(neg, m, e) ==
  LET k == e + 23
      n == (m[1] * Limb + m[2]) * 128 + m[3] \div 256
      tz == TrailingZeros(n)
      sign == IF neg THEN -1 ELSE 1
  IN IF m[4] = 0 /\ m[3] % 256 = 0 /\ k <= 0 /\ -k - tz <= 30
     THEN (IF -k <= tz THEN <<sign * (n \div 2 ^ (-k)), 1>>
           ELSE <<sign * (n \div 2 ^ tz), 2 ^ (-k - tz)>>)
     ELSE <<neg, m, e>>

\* sign, significand and exponent of a double other than zero.  A numerator
\* n of a small double is first made one of 30 bits, top; the 53 bits are top
\* followed by 23 zeros
Unpack(x) ==
  IF IsSmall(x)
  THEN LET n == Abs(x[1])
           bits == BitLen(n)
           top == n * 2 ^ (30 - bits)
       IN [neg |-> x[1] < 0,
           m |-> <<top \div 2 ^ 22, (top \div 128) % Limb, (top % 128) * 256, 0>>,
           e |-> -(BitLen(x[2]) - 1) - (53 - bits)]
  ELSE [neg |-> x[1], m |-> x[2], e |-> x[3]]

\* the double nearest to a * 2^e, a tie going to the even significand, for a
\* numeral a other than zero; inexact says that the value rounded lies above
\* a * 2^e and below (a + 1) * 2^e
Round(neg, a, e, inexact) ==
  LET dropped == NatBitLen(a) - 53
      q == NatShiftRight(a, dropped)
      up == /\ NatBit(a, dropped - 1) = 1
            /\ \/ inexact
               \/ ~NatLowZero(a, dropped - 1)
               \/ NatBit(a, dropped) = 1
      r == IF ~up THEN q
           ELSE IF q[4] < Limb - 1 THEN [q EXCEPT ![4] = @ + 1]
           ELSE NatAdd(q, <<1>>)
  IN IF dropped <= 0 THEN Pack(neg, NatShiftLeft(a, -dropped), e + dropped)
     ELSE IF r[1] = 256
          THEN Pack(neg, <<128, 0, 0, 0>>, e + dropped + 1)
          ELSE Pack(neg, r, e + dropped)

\* the same for the numeral of limbs top, l1, l2 and l3, where top has 8 + c
\* bits and 0 <= c <= 15; an inexact one has c > 0.  The c lowest bits are
\* dropped: above, below or at the half of what the last bit kept stands for
RoundShift(neg, top, l1, l2, l3, c, inexact, e) ==
  LET low == 2 ^ c
      high == 2 ^ (LimbBits - c)
      q == <<top \div low,
             (top % low) * high + l1 \div low,
             (l1 % low) * high + l2 \div low,
             (l2 % low) * high + l3 \div low>>
      rest == l3 % low
      up == /\ c > 0
            /\ \/ 2 * rest > low
               \/ 2 * rest = low /\ (inexact \/ q[4] % 2 = 1)
      r == IF ~up THEN q
           ELSE IF q[4] < Limb - 1 THEN [q EXCEPT ![4] = @ + 1]
           ELSE NatAdd(q, <<1>>)
  IN IF r[1] = 256 THEN Pack(neg, <<128, 0, 0, 0>>, e + c + 1)
     ELSE Pack(neg, r, e + c)

\* the double nearest to m * 2^e * k for a significand m and 0 < k < 2^15:
\* the product limb by limb, from the last one
TimesShort(neg, m, e, k) ==
  LET t4 == m[4] * k
      t3 == m[3] * k + t4 \div Limb
      t2 == m[2] * k + t3 \div Limb
      t1 == m[1] * k + t2 \div Limb
  IN RoundShift(neg, t1, t2 % Limb, t3 % Limb, t4 % Limb, BitLen(t1) - 8,
                FALSE, e)

\* the double nearest to m * 2^e / k for a significand m and 0 < k < 2^14:
\* long division by k made a number of 14 bits, the first step taking the two
\* leading limbs and giving 9 or 10 bits of the quotient
OverShort(neg, m, e, k) ==
  LET bits == BitLen(k)
      by == k * 2 ^ (14 - bits)
      d0 == m[1] * Limb + m[2]
      d1 == (d0 % by) * Limb + m[3]
      d2 == (d1 % by) * Limb + m[4]
      d3 == (d2 % by) * Limb
  IN RoundShift(neg, d0 \div by, d1 \div by, d2 \div by, d3 \div by,
                IF d0 \div by >= 512 THEN 2 ELSE 1, d3 % by # 0, e - bits - 1)

\* the double of an integer
FromInt(n) ==
  IF Abs(n) < SmallLimit THEN <<n, 1>>
  ELSE Round(n < 0, NatOf(Abs(n)), 0, FALSE)

Negative(x) == IF IsSmall(x) THEN x[1] < 0 ELSE x[1]

\* `-x`
Neg(x) == IF IsSmall(x) THEN <<-x[1], x[2]>> ELSE <<~x[1], x[2], x[3]>>

\* `x * k` for a double x and an integer k: done on the fractions where the
\* product is one of the small doubles, and through the significand otherwise
Times(x, k) ==
  IF k = 0 \/ x = Zero THEN Zero
  ELSE IF IsSmall(x) /\ Abs(x[1]) <= (SmallLimit - 1) \div Abs(k)
       THEN Num(x[1] * k, x[2])
       ELSE LET u == Unpack(x)
            IN IF Abs(k) < Limb THEN TimesShort(u.neg # (k < 0), u.m, u.e, Abs(k))
               ELSE Round(u.neg # (k < 0), NatTimes(u.m, Abs(k)), u.e, FALSE)

\* `x + y` for doubles
Plus(x, y) ==
  IF x = Zero THEN y
  ELSE IF y = Zero THEN x
  ELSE IF /\ IsSmall(x) /\ IsSmall(y)
          /\ LET d == Max(x[2], y[2])
             IN /\ Abs(x[1]) <= (SmallLimit \div 2 - 1) \div (d \div x[2])
                /\ Abs(y[1]) <= (SmallLimit \div 2 - 1) \div (d \div y[2])
       THEN LET d == Max(x[2], y[2])
            IN Num(x[1] * (d \div x[2]) + y[1] * (d \div y[2]), d)
       ELSE LET u == Unpack(x)
                v == Unpack(y)
                a == IF u.e >= v.e THEN u ELSE v
                b == IF u.e >= v.e THEN v ELSE u
                wide == NatShiftLeft(a.m, a.e - b.e)
            IN IF a.e - b.e >= 56 THEN Pack(a.neg, a.m, a.e)
               ELSE IF a.neg = b.neg
                    THEN Round(a.neg, NatAdd(wide, b.m), b.e, FALSE)
               ELSE IF wide = b.m THEN Zero
               ELSE IF NatLess(wide, b.m)
                    THEN Round(b.neg, NatSub(b.m, wide), b.e, FALSE)
                    ELSE Round(a.neg, NatSub(wide, b.m), b.e, FALSE)

\* `x - y` for doubles
Minus(x, y) == Plus(x, Neg(y))

\* `x / k` for a double x and an integer k other than zero
Over(x, k) ==
  IF x = Zero THEN Zero
  ELSE IF /\ IsSmall(x)
          /\ LET by == Abs(k) \div GCD(Abs(x[1]), Abs(k))
             IN SmallLimit % by = 0 /\ by <= SmallLimit \div x[2]
       THEN LET g == GCD(Abs(x[1]), Abs(k))
            IN <<(IF k < 0 THEN -x[1] ELSE x[1]) \div g, x[2] * (Abs(k) \div g)>>
       ELSE LET u == Unpack(x)
                more == (BitLen(Abs(k)) + 16) \div LimbBits
                d == Quotient(u.m, Abs(k), more)
            IN IF Abs(k) < Limb \div 2
               THEN OverShort(u.neg # (k < 0), u.m, u.e, Abs(k))
               ELSE Round(u.neg # (k < 0), NatStrip(d.q), u.e - more * LimbBits,
                          d.r # 0)

\* x <= y for doubles
AtMost(x, y) == LET d == Minus(x, y) IN d = Zero \/ Negative(d)

\* a text showing a number of percent: its sign, its digits as a number of
\* tenths, and the number of digits after the point
Percent(negative, tenths, digits) ==
  [negative |-> negative, tenths |-> tenths, digits |-> digits]

\* `${x.toFixed(1)}%` for a double x: "-" where x is below zero, then the
\* number of tenths nearest to its magnitude, the larger of two that are
\* equally near.  The tenths are a number below 2^31
ToFixed1(x) ==
  IF IsSmall(x) /\ x[2] <= 2 ^ 26
  THEN LET n == Abs(x[1])
           d == x[2]
       IN Percent(x[1] < 0, 10 * (n \div d) + (20 * (n % d) + d) \div (2 * d), 1)
  ELSE LET u == Unpack(x)
       IN Percent(u.neg,
                  IF u.e < -60 THEN 0
                  ELSE NatVal(NatShiftRight(NatAdd(NatTimes(u.m, 20),
                                                   NatShiftLeft(<<1>>, -u.e)),
                                            1 - u.e)),
                  1)

\* the double `((sync - avg) / sync) * 100`
Improvement(sync, avg) == Times(Over(Minus(FromInt(sync), avg), sync), 100)

\* `${improvement.toFixed(1)}%` for that double.  For an average n / d among
\* the small doubles the improvement aimed at is the fraction
\* 100 * (sync * d - n) / (sync * d).  sync - avg is then exact and the two
\* operations after it are each off by at most one part in 2^53, while a
\* fraction of tenths that is not halfway between two numbers of tenths is at
\* least 1 / (2 * sync * d) away from halfway: so long as the fraction is not
\* halfway and |sync * d - n| <= 2 * 10^6, the double and the fraction have the
\* same digits, and the digits are taken from the fraction
ImprovementText(sync, avg) ==
  IF /\ IsSmall(avg)
     /\ avg[2] <= SmallLimit \div sync
     /\ Abs(sync * avg[2] - avg[1]) <= 2000000
     /\ 2 * ((1000 * Abs(sync * avg[2] - avg[1])) % (sync * avg[2])) # sync * avg[2]
  THEN LET p == 1000 * Abs(sync * avg[2] - avg[1])
           q == sync * avg[2]
       IN Percent(sync * avg[2] < avg[1],
                  p \div q + (IF 2 * (p % q) > q THEN 1 ELSE 0), 1)
  ELSE ToFixed1(Improvement(sync, avg))

\* parseFloat of such a text, in tenths
parseFloat(text) == IF text.negative THEN -text.tenths ELSE text.tenths

(* ------------------------------- state -------------------------------- *)
\* the state a step of the code reads and writes, as one record
Cur ==
  [jobs |-> jobs, jobQueue |-> jobQueue, isProcessing |-> isProcessing,
   systemMetrics |-> systemMetrics, immediates |-> immediates, now |-> now,
   genLog |-> genLog, unhandled |-> unhandled, detached |-> detached]

Becomes(S) ==
  /\ jobs' = S.jobs
  /\ jobQueue' = S.jobQueue
  /\ isProcessing' = S.isProcessing
  /\ systemMetrics' = S.systemMetrics
  /\ immediates' = S.immediates
  /\ now' = S.now
  /\ genLog' = S.genLog
  /\ unhandled' = S.unhandled
  /\ detached' = S.detached
  /\ UNCHANGED ticketVars

InitialMetrics ==
  [totalJobsProcessed |-> 0,
   averageResponseTime |-> <<0, 1>>,
   averageProcessingTime |-> <<0, 1>>,
   concurrentProcessingCapability |-> 0,
   memoryEfficiency |-> 0,
   successRate |-> <<0, 1>>,
   legacyComparisonData |->
     [avgSyncResponseTime |-> LegacyBaseline,
      avgAsyncResponseTime |-> <<0, 1>>,
      performanceImprovement |-> Percent(FALSE, 0, 0)]]

Init ==
  /\ jobs = <<>>
  /\ jobQueue = <<>>
  /\ isProcessing = FALSE
  /\ systemMetrics = InitialMetrics
  /\ immediates = <<>>
  /\ now = 1
  /\ nextId = 1
  /\ genLog = <<>>
  /\ unhandled = FALSE
  /\ detached = <<>>
  /\ users = <<>>
  /\ tickets = <<>>
  /\ ticketSeq = 0
  /\ calls = [c \in 1..MaxCalls |-> [pc |-> "idle"]]

(* --------------------------- report generator ------------------------- *)
\* a job identifier, one string returned by randomUUID().  The strings are
\* pairwise different, so an identifier is known by its serial number (it
\* is the serial-th string drawn) and the registry is keyed by it; what the
\* code reads of the text itself is its first eight characters, and two
\* different identifiers may begin with the same eight
Uuid(serial, first8) == [serial |-> serial, slice |-> first8]

\* `jobId.slice(0, 8)`
slice(jobId) == jobId.slice

\* `out/${type}_${job.jobId.slice(0, 8)}.csv`
OutputFile(type, jobId) == [kind |-> type, prefix |-> slice(jobId)]

\* generateAccountsReport / generateYearlyReport / generateFsReport: the output
\* path is pushed on the record, then the report logic runs for `d` ms and
\* returns ("ok") or throws (outcome = the error's message)
generateReport(S, jobId, type, outcome, d) ==
  [S EXCEPT !.jobs[jobId].resultPaths =
                Append(@, OutputFile(type, S.jobs[jobId].jobId)),
            !.genLog = Append(@, [job |-> jobId, jobType |-> S.jobs[jobId].type,
                                  type |-> type, outcome |-> outcome]),
            !.now = @ + d]

(* ------------------------------ metrics ------------------------------- *)
\* variant: a submission also counts as a processed job
updateResponseTimeMetricsCounting(m, responseTime) ==
  LET currentAvg == m.averageResponseTime
      totalJobs == IF m.totalJobsProcessed = 0 THEN 1 ELSE m.totalJobsProcessed
      avg == Over(Plus(Times(currentAvg, totalJobs - 1), FromInt(responseTime)),
                  totalJobs)
      sync == m.legacyComparisonData.avgSyncResponseTime
  IN [m EXCEPT !.totalJobsProcessed = totalJobs,
               !.averageResponseTime = avg,
               !.legacyComparisonData.avgAsyncResponseTime = avg,
               !.legacyComparisonData.performanceImprovement =
                   ImprovementText(sync, avg)]

\* variant: the improvement is cut to one decimal instead of rounded
updateResponseTimeMetricsTruncated(m, responseTime) ==
  LET currentAvg == m.averageResponseTime
      totalJobs == IF m.totalJobsProcessed = 0 THEN 1 ELSE m.totalJobsProcessed
      avg == Over(Plus(Times(currentAvg, totalJobs - 1), FromInt(responseTime)),
                  totalJobs)
      sync == m.legacyComparisonData.avgSyncResponseTime
  IN [m EXCEPT !.averageResponseTime = avg,
               !.legacyComparisonData.avgAsyncResponseTime = avg,
               !.legacyComparisonData.performanceImprovement =
                   Percent(sync * avg[2] < avg[1],
                           (1000 * Abs(sync * avg[2] - avg[1])) \div (sync * avg[2]),
                           1)]

updateResponseTimeMetrics(m, responseTime) ==
  LET currentAvg == m.averageResponseTime
      totalJobs == IF m.totalJobsProcessed = 0 THEN 1 ELSE m.totalJobsProcessed
      avg == Over(Plus(Times(currentAvg, totalJobs - 1), FromInt(responseTime)),
                  totalJobs)
      sync == m.legacyComparisonData.avgSyncResponseTime
  IN [m EXCEPT !.averageResponseTime = avg,
               !.legacyComparisonData.avgAsyncResponseTime = avg,
               !.legacyComparisonData.performanceImprovement =
                   ImprovementText(sync, avg)]

\* variant: the success rate is taken over all jobs processed so far
updateSystemMetricsOverProcessed(S, jobId) ==
  LET job == S.jobs[jobId]
      m == S.systemMetrics
      totalJobs == m.totalJobsProcessed + 1
      pt == job.metrics.processingTime
      currentAvg == m.averageProcessingTime
      avgProcessing ==
        IF pt # NoTime /\ pt # 0
        THEN Over(Plus(Times(currentAvg, totalJobs - 1), FromInt(pt)), totalJobs)
        ELSE currentAvg
      successfulJobs == {j \in DOMAIN S.jobs : S.jobs[j].status = "completed"}
  IN [S EXCEPT !.systemMetrics =
        [m EXCEPT !.totalJobsProcessed = totalJobs,
                  !.averageProcessingTime = avgProcessing,
                  !.successRate =
                      Times(Over(FromInt(Cardinality(successfulJobs)), totalJobs),
                            100),
                  !.concurrentProcessingCapability =
                      Max(@, Cardinality(DOMAIN S.jobs))]]

\* variant: totalJobsProcessed is the number of tracked terminal records
updateSystemMetricsTracked(S, jobId) ==
  LET job == S.jobs[jobId]
      m == S.systemMetrics
      totalJobs == m.totalJobsProcessed + 1
      pt == job.metrics.processingTime
      currentAvg == m.averageProcessingTime
      avgProcessing ==
        IF pt # NoTime /\ pt # 0
        THEN Over(Plus(Times(currentAvg, totalJobs - 1), FromInt(pt)), totalJobs)
        ELSE currentAvg
      completedJobs == {j \in DOMAIN S.jobs : S.jobs[j].status \in {"completed", "failed"}}
      successfulJobs == {j \in completedJobs : S.jobs[j].status = "completed"}
      rate == IF Cardinality(completedJobs) > 0
              THEN Times(Over(FromInt(Cardinality(successfulJobs)),
                              Cardinality(completedJobs)), 100)
              ELSE Zero
  IN [S EXCEPT !.systemMetrics =
        [m EXCEPT !.totalJobsProcessed = Cardinality(completedJobs),
                  !.averageProcessingTime = avgProcessing,
                  !.successRate = rate,
                  !.concurrentProcessingCapability =
                      Max(@, Cardinality(DOMAIN S.jobs))]]

updateSystemMetrics(S, jobId) ==
  LET job == S.jobs[jobId]
      m == S.systemMetrics
      totalJobs == m.totalJobsProcessed + 1
      pt == job.metrics.processingTime
      currentAvg == m.averageProcessingTime
      avgProcessing ==
        IF pt # NoTime /\ pt # 0
        THEN Over(Plus(Times(currentAvg, totalJobs - 1), FromInt(pt)), totalJobs)
        ELSE currentAvg
      completedJobs == {j \in DOMAIN S.jobs : S.jobs[j].status \in {"completed", "failed"}}
      successfulJobs == {j \in completedJobs : S.jobs[j].status = "completed"}
      rate == IF Cardinality(completedJobs) > 0
              THEN Times(Over(FromInt(Cardinality(successfulJobs)),
                              Cardinality(completedJobs)), 100)
              ELSE Zero
  IN [S EXCEPT !.systemMetrics =
        [m EXCEPT !.totalJobsProcessed = totalJobs,
                  !.averageProcessingTime = avgProcessing,
                  !.successRate = rate,
                  !.concurrentProcessingCapability =
                      Max(@, Cardinality(DOMAIN S.jobs))]]

(* ------------------------------ retention ----------------------------- *)
\* variant: the sweep goes by the creation timestamp
cleanupOldJobsByCreated(S) ==
  LET oneHourAgo == S.now - HourMs
      old == {j \in DOMAIN S.jobs : S.jobs[j].timestamps.created < oneHourAgo}
  IN [S EXCEPT !.jobs = [j \in DOMAIN S.jobs \ old |-> S.jobs[j]],
               !.detached = [j \in old |-> S.jobs[j]] @@ @]

\* variant: the sweep also removes records that have waited for over an hour
cleanupOldJobsStale(S) ==
  LET oneHourAgo == S.now - HourMs
      old == {j \in DOMAIN S.jobs :
                \/ /\ S.jobs[j].timestamps.completed # NoTime
                   /\ S.jobs[j].timestamps.completed # 0
                   /\ S.jobs[j].timestamps.completed < oneHourAgo
                \/ /\ S.jobs[j].status = "pending"
                   /\ S.jobs[j].timestamps.created < oneHourAgo}
  IN [S EXCEPT !.jobs = [j \in DOMAIN S.jobs \ old |-> S.jobs[j]],
               !.detached = [j \in old |-> S.jobs[j]] @@ @]

\* variant: the sweep removes every record that has a completed timestamp
cleanupOldJobsCompleted(S) ==
  LET old == {j \in DOMAIN S.jobs :
                /\ S.jobs[j].timestamps.completed # NoTime
                /\ S.jobs[j].timestamps.completed # 0}
  IN [S EXCEPT !.jobs = [j \in DOMAIN S.jobs \ old |-> S.jobs[j]],
               !.detached = [j \in old |-> S.jobs[j]] @@ @]

cleanupOldJobs(S) ==
  LET oneHourAgo == S.now - HourMs
      old == {j \in DOMAIN S.jobs :
                /\ S.jobs[j].timestamps.completed # NoTime
                /\ S.jobs[j].timestamps.completed # 0
                /\ S.jobs[j].timestamps.completed < oneHourAgo}
  IN [S EXCEPT !.jobs = [j \in DOMAIN S.jobs \ old |-> S.jobs[j]],
               !.detached = [j \in old |-> S.jobs[j]] @@ @]

(* --------------------------- processing loop -------------------------- *)
\* setImmediate(cb): the callback joins the event loop's queue
setImmediate(S, task) == [S EXCEPT !.immediates = Append(@, task)]

\* processSingleReport up to the point where its promise is pending
processSingleReport(S, jobId, type) ==
  setImmediate(S, [kind |-> "report", job |-> jobId, type |-> type])

\* variant: processJob does not mark the record as processing
processJobBeginNoStatus(S, jobId) ==
  LET S1 == [S EXCEPT !.jobs[jobId].timestamps.started = S.now]
  IN IF S1.jobs[jobId].type = "all"
     THEN processSingleReport(S1, jobId, "accounts")
     ELSE processSingleReport(S1, jobId, S1.jobs[jobId].type)

\* processJob up to its first await: the record becomes processing and the
\* first (or only) report is scheduled
processJobBegin(S, jobId) ==
  LET S1 == [S EXCEPT !.jobs[jobId].status = "processing",
                      !.jobs[jobId].timestamps.started = S.now]
  IN IF S1.jobs[jobId].type = "all"
     THEN processSingleReport(S1, jobId, "accounts")
     ELSE processSingleReport(S1, jobId, S1.jobs[jobId].type)

\* variant: the finally block records the latency only
processJobFinallyNoStamp(S, jobId) ==
  [S EXCEPT !.jobs[jobId].metrics.processingTime =
                S.now - S.jobs[jobId].timestamps.started]

\* the finally block of processJob
processJobFinally(S, jobId) ==
  [S EXCEPT !.jobs[jobId].timestamps.completed = S.now,
            !.jobs[jobId].metrics.processingTime =
                S.now - S.jobs[jobId].timestamps.started]

\* processJob after the last report resolved
processJobResolved(S, jobId) ==
  processJobFinally([S EXCEPT !.jobs[jobId].status = "completed"], jobId)

\* processJob's catch and finally blocks; the error is rethrown to the caller
processJobRejected(S, jobId, message) ==
  processJobFinally([S EXCEPT !.jobs[jobId].status = "failed",
                              !.jobs[jobId].errorMessage = message], jobId)

\* variant: the catch block of processQueue records a fixed text
processQueueCatchGeneric(S, jobId, message, e) ==
  [S EXCEPT !.jobs[jobId].status = "failed",
            !.jobs[jobId].errorMessage = "Unknown error",
            !.jobs[jobId].timestamps.completed = S.now + e,
            !.now = S.now + e]

\* the catch block of processQueue, `e` ms after processJob's finally block
processQueueCatch(S, jobId, message, e) ==
  [S EXCEPT !.jobs[jobId].status = "failed",
            !.jobs[jobId].errorMessage = message,
            !.jobs[jobId].timestamps.completed = S.now + e,
            !.now = S.now + e]

\* variant: the loop ends without clearing isProcessing
RECURSIVE whileLoopKeepsFlag(_)
whileLoopKeepsFlag(S) ==
  IF S.jobQueue = <<>>
  THEN S
  ELSE LET jobId == Head(S.jobQueue)
           S1 == [S EXCEPT !.jobQueue = Tail(@)]
       IN IF jobId \notin DOMAIN S1.jobs
          THEN whileLoopKeepsFlag(S1)
          ELSE processJobBegin(S1, jobId)

\* variant: the loop takes the most recent submission (pop instead of shift)
RECURSIVE whileLoopPop(_)
whileLoopPop(S) ==
  IF S.jobQueue = <<>>
  THEN [S EXCEPT !.isProcessing = FALSE]
  ELSE LET jobId == S.jobQueue[Len(S.jobQueue)]
           S1 == [S EXCEPT !.jobQueue = SubSeq(@, 1, Len(@) - 1)]
       IN IF jobId \notin DOMAIN S1.jobs
          THEN whileLoopPop(S1)
          ELSE processJobBegin(S1, jobId)

\* the head of processQueue's while loop: it leaves the loop when the queue
\* is empty, and otherwise dequeues until it has started a tracked job
RECURSIVE whileLoop(_)
whileLoop(S) ==
  IF S.jobQueue = <<>>
  THEN [S EXCEPT !.isProcessing = FALSE]
  ELSE LET jobId == Head(S.jobQueue)
           S1 == [S EXCEPT !.jobQueue = Tail(@)]
       IN IF jobId \notin DOMAIN S1.jobs
          THEN whileLoop(S1)
          ELSE processJobBegin(S1, jobId)

\* the rest of a loop iteration once processJob has settled
afterJob(S, jobId) == whileLoop(cleanupOldJobs(updateSystemMetrics(S, jobId)))

\* variant: processQueue without the isProcessing re-entrancy guard
processQueueNoGuard(S) ==
  IF S.jobQueue = <<>>
  THEN S
  ELSE whileLoop([S EXCEPT !.isProcessing = TRUE])

\* processQueue from its call to its first await (or return)
processQueue(S) ==
  IF S.isProcessing \/ S.jobQueue = <<>>
  THEN S
  ELSE whileLoop([S EXCEPT !.isProcessing = TRUE])

\* variant: processQueue has no try/catch, the rejection ends the loop
jobRejectedNoCatch(S, jobId, message, e) ==
  [processJobRejected(S, jobId, message) EXCEPT !.unhandled = TRUE]

\* processJob settled with an error: processQueue catches it
jobRejected(S, jobId, message, e) ==
  afterJob(processQueueCatch(processJobRejected(S, jobId, message), jobId, message, e),
           jobId)

jobResolved(S, jobId) == afterJob(processJobResolved(S, jobId), jobId)

\* variant: processAllReports leaves out the yearly report
reportResolvedSkipYearly(S, jobId, type) ==
  IF S.jobs[jobId].type = "all" /\ type = "accounts"
  THEN processSingleReport(S, jobId, "fs")
  ELSE jobResolved(S, jobId)

\* the continuation of processAllReports / processJob after a report resolved
reportResolved(S, jobId, type) ==
  IF S.jobs[jobId].type = "all" /\ type = "accounts"
  THEN processSingleReport(S, jobId, "yearly")
  ELSE IF S.jobs[jobId].type = "all" /\ type = "yearly"
  THEN processSingleReport(S, jobId, "fs")
  ELSE jobResolved(S, jobId)

\* variant: a failed report does not stop the remaining sub-executions
reportCallbackSettled(S, jobId, type, outcome, d, e) ==
  LET S1 == generateReport(S, jobId, type, outcome, d)
  IN IF outcome = "ok" \/ (S.jobs[jobId].type = "all" /\ type # "fs")
     THEN reportResolved(S1, jobId, type)
     ELSE jobRejected(S1, jobId, outcome, e)

\* the setImmediate callback of processSingleReport and the continuations it
\* releases
reportCallback(S, jobId, type, outcome, d, e) ==
  LET S1 == generateReport(S, jobId, type, outcome, d)
  IN IF outcome = "ok"
     THEN reportResolved(S1, jobId, type)
     ELSE jobRejected(S1, jobId, outcome, e)

(* ------------------------------ createJob ----------------------------- *)
\* variant: createJob calls processQueue directly instead of deferring it
startProcessingSync(S) ==
  IF ~S.isProcessing THEN processQueue(S) ELSE S

\* `if (!this.isProcessing) setImmediate(() => this.processQueue())`
startProcessing(S) ==
  IF ~S.isProcessing THEN setImmediate(S, [kind |-> "processQueue"]) ELSE S

NewJob(jobId, type, created, queued) ==
  [jobId |-> jobId,
   type |-> type,
   status |-> "pending",
   timestamps |-> [created |-> created, started |-> NoTime, completed |-> NoTime],
   metrics |-> [concurrentJobs |-> queued + 1, processingTime |-> NoTime],
   resultPaths |-> <<>>,
   errorMessage |-> NoError]

\* variant: createJob reuses the smallest identifier that is not tracked
createJobReuseId(S, jobId, type, responseTime) ==
  LET free == CHOOSE i \in 1..jobId.serial :
                i \notin DOMAIN S.jobs /\ \A k \in 1..(i - 1) : k \in DOMAIN S.jobs
      S1 == [S EXCEPT !.jobs = (free :> NewJob([jobId EXCEPT !.serial = free], type,
                                               S.now, Len(S.jobQueue))) @@ @,
                      !.jobQueue = Append(@, free)]
      S2 == [S1 EXCEPT !.systemMetrics.concurrentProcessingCapability =
                          Max(@, Cardinality(DOMAIN S1.jobs))]
      S3 == startProcessing(S2)
  IN [S3 EXCEPT !.now = @ + responseTime,
                !.systemMetrics = updateResponseTimeMetrics(@, responseTime)]

\* variant: createJob brings concurrentJobs of the waiting records up to date
createJobRecount(S, jobId, type, responseTime) ==
  LET recount(job) ==
        IF job.status = "pending"
        THEN [job EXCEPT !.metrics.concurrentJobs = Len(S.jobQueue) + 1]
        ELSE job
      S1 == [S EXCEPT !.jobs = (jobId.serial :> NewJob(jobId, type, S.now, Len(S.jobQueue)))
                                 @@ [j \in DOMAIN S.jobs |-> recount(S.jobs[j])],
                      !.jobQueue = Append(@, jobId.serial)]
      S2 == [S1 EXCEPT !.systemMetrics.concurrentProcessingCapability =
                          Max(@, Cardinality(DOMAIN S1.jobs))]
      S3 == startProcessing(S2)
  IN [S3 EXCEPT !.now = @ + responseTime,
                !.systemMetrics = updateResponseTimeMetrics(@, responseTime)]

\* variant: the concurrency high-water mark is left to updateSystemMetrics
createJobNoCapability(S, jobId, type, responseTime) ==
  LET S1 == [S EXCEPT !.jobs = (jobId.serial :> NewJob(jobId, type, S.now, Len(S.jobQueue))) @@ @,
                      !.jobQueue = Append(@, jobId.serial)]
      S3 == startProcessing(S1)
  IN [S3 EXCEPT !.now = @ + responseTime,
                !.systemMetrics = updateResponseTimeMetrics(@, responseTime)]

createJob(S, jobId, type, responseTime) ==
  LET S1 == [S EXCEPT !.jobs = (jobId.serial :> NewJob(jobId, type, S.now, Len(S.jobQueue))) @@ @,
                      !.jobQueue = Append(@, jobId.serial)]
      S2 == [S1 EXCEPT !.systemMetrics.concurrentProcessingCapability =
                          Max(@, Cardinality(DOMAIN S1.jobs))]
      S3 == startProcessing(S2)
  IN [S3 EXCEPT !.now = @ + responseTime,
                !.systemMetrics = updateResponseTimeMetrics(@, responseTime)]

(* --------------------------- read operations -------------------------- *)
\* what a caller may send as :jobId; MaxJobs + 1 is never issued by createJob
Identifiers == 1..(MaxJobs + 1)
\* the JavaScript value null
Null == [null |-> TRUE]
\* whether fs.readFileSync of a result file succeeds ("ok") or throws
ReadOutcomes == Outcomes

\* path.basename(resultPath): the path without its directory `out/`
basename(resultPath) == <<resultPath.kind, resultPath.prefix, "csv">>

\* Every read operation is given as the pair of the value it returns (ret) and
\* the service state it leaves (S).

\* variant: the lookup takes the record out of the registry
getJobStatusTake(S, jobId) ==
  [S |-> [S EXCEPT !.jobs = [j \in DOMAIN S.jobs \ {jobId} |-> S.jobs[j]]],
   ret |-> IF jobId \in DOMAIN S.jobs THEN S.jobs[jobId] ELSE Null]

\* `this.jobs.get(jobId) || null`
getJobStatus(S, jobId) ==
  [S |-> S,
   ret |-> IF jobId \in DOMAIN S.jobs THEN S.jobs[jobId] ELSE Null]

\* getJobStatus returns the registry's own object, not a copy: what the holder
\* of a returned value reads from it while the registry is jobsMap and the
\* records deleted from it are detachedMap.  The object follows every change
\* made up to its removal and keeps the fields it had then
ReadRecord(jobId, value, jobsMap, detachedMap) ==
  IF value = Null THEN Null
  ELSE IF jobId \in DOMAIN jobsMap THEN jobsMap[jobId]
  ELSE detachedMap[jobId]

\* variant: getJobResult without the check of the job's status
getJobResultAnyStatus(S, jobId, read) ==
  [S |-> S,
   ret |->
     IF jobId \notin DOMAIN S.jobs
     THEN [success |-> FALSE, error |-> <<"Job not found">>]
     ELSE [success |-> TRUE,
           data |-> [jobId |-> S.jobs[jobId].jobId, type |-> S.jobs[jobId].type,
                     metrics |-> S.jobs[jobId].metrics,
                     results |-> {basename(S.jobs[jobId].resultPaths[i]) :
                                    i \in 1..Len(S.jobs[jobId].resultPaths)},
                     timestamps |-> S.jobs[jobId].timestamps]]]

\* getJobResult(jobId); `read` is the outcome of reading the result files.
\* A template string is kept as the sequence of its parts.
getJobResult(S, jobId, read) ==
  [S |-> S,
   ret |->
     IF jobId \notin DOMAIN S.jobs
     THEN [success |-> FALSE, error |-> <<"Job not found">>]
     ELSE LET job == S.jobs[jobId]
          IN IF job.status # "completed"
             THEN [success |-> FALSE, error |-> <<"Job status: ", job.status>>]
             ELSE IF job.resultPaths # <<>> /\ read # "ok"
             THEN [success |-> FALSE, error |-> <<"Failed to read results: ", read>>]
             ELSE [success |-> TRUE,
                   data |-> [jobId |-> job.jobId,
                             type |-> job.type,
                             metrics |-> job.metrics,
                             results |-> {basename(job.resultPaths[i]) :
                                            i \in 1..Len(job.resultPaths)},
                             timestamps |-> job.timestamps]]]

\* the one legacyComparisonData object, created with the service: a copy of
\* systemMetrics made by object spread holds a reference to it
LegacyComparisonRef == [ref |-> "legacyComparisonData"]

\* `{ ...this.systemMetrics }`: the own properties are copied one level deep
getSystemMetrics(S) ==
  [S |-> S,
   ret |-> [S.systemMetrics EXCEPT !.legacyComparisonData = LegacyComparisonRef]]

\* what the holder of a value returned by getSystemMetrics reads from it while
\* the service's metrics are m
ReadSnapshot(value, m) ==
  [value EXCEPT !.legacyComparisonData =
     IF @ = LegacyComparisonRef THEN m.legacyComparisonData ELSE @]

\* this.jobs.values(): a Map iterates in insertion order, which is the order
\* in which the identifiers were issued
values(jobsMap) ==
  LET ids == SelectSeq([i \in Identifiers |-> i], LAMBDA i : i \in DOMAIN jobsMap)
  IN [k \in 1..Len(ids) |-> jobsMap[ids[k]]]

\* variant: getAllJobs puts each record at the front of its group
getAllJobsUnshift(S) ==
  LET all == values(S.jobs)
      rev == [k \in 1..Len(all) |-> all[Len(all) + 1 - k]]
      group(status) == SelectSeq(rev, LAMBDA job : job.status = status)
  IN [S |-> S,
      ret |-> [pending |-> group("pending"), processing |-> group("processing"),
               completed |-> group("completed"), failed |-> group("failed")]]

\* getAllJobs(): each record is pushed on the group of its status
getAllJobs(S) ==
  LET all == values(S.jobs)
      group(status) == SelectSeq(all, LAMBDA job : job.status = status)
  IN [S |-> S,
      ret |-> [pending |-> group("pending"), processing |-> group("processing"),
               completed |-> group("completed"), failed |-> group("failed")]]

(* ------------------------------ controller ---------------------------- *)
\* Object.values(REPORT_TYPES)
validTypes == ReportTypes

\* `(type || REPORT_TYPES.ALL)`: a missing or empty query parameter is falsy
reportTypeOf(type) == IF type = Absent \/ type = "" THEN "all" ELSE type

\* what ReportsController.createReportJob(type) answers: a BadRequestException
\* or the descriptor of the new job.  The message of the exception is
\* `${ERROR_MESSAGES.INVALID_REPORT_TYPE}. Valid types: ${validTypes.join(', ')}`
createReportJobResult(type, jobId) ==
  IF reportTypeOf(type) \notin validTypes
  THEN [kind |-> "BadRequest",
        message |-> "Invalid report type. Valid types: accounts, yearly, fs, all"]
  ELSE [kind |-> "created", jobId |-> jobId, type |-> reportTypeOf(type),
        status |-> "pending"]

\* what the first eight characters of the identifier randomUUID() returns
\* next can be: those of an identifier drawn before, or new ones (named after
\* the serial number of the identifier that has them first)
Slices(S, serial) ==
  {slice(S.jobs[j].jobId) : j \in DOMAIN S.jobs}
    \cup {slice(S.detached[j].jobId) : j \in DOMAIN S.detached}
    \cup {serial}

\* ReportsController.createReportJob(type): a rejected request changes nothing.
\* The identifiers drawn for these requests begin with eight characters of
\* their own
createReportJob(type, responseTime) ==
  IF createReportJobResult(type, nextId).kind = "BadRequest"
  THEN UNCHANGED vars
  ELSE /\ nextId <= MaxJobs
       /\ Becomes(createJob(Cur, Uuid(nextId, nextId), reportTypeOf(type),
                            responseTime))
       /\ nextId' = nextId + 1

(* ------------------------------- actions ------------------------------ *)
\* POST reports: createJob, whose wall-clock cost is drawn, is reached by the
\* requests that are not rejected
CreateReportJob ==
  \E type \in RequestTypes :
    IF createReportJobResult(type, nextId).kind = "BadRequest"
    THEN UNCHANGED vars
    ELSE \E responseTime \in ResponseTimes : createReportJob(type, responseTime)

\* the event loop runs the oldest setImmediate callback: a processQueue start
RunProcessQueue ==
  /\ immediates # <<>>
  /\ Head(immediates).kind = "processQueue"
  /\ Becomes(processQueue([Cur EXCEPT !.immediates = Tail(@)]))
  /\ UNCHANGED nextId

\* the event loop runs the oldest setImmediate callback: a report generation
RunReport ==
  /\ immediates # <<>>
  /\ Head(immediates).kind = "report"
  /\ \E outcome \in Outcomes, d \in Durations, e \in CatchDelays :
       Becomes(reportCallback([Cur EXCEPT !.immediates = Tail(@)],
                              Head(immediates).job, Head(immediates).type,
                              outcome, d, e))
  /\ UNCHANGED nextId

\* GET status/:jobId
GetJobStatus ==
  /\ \E jobId \in Identifiers : Becomes(getJobStatus(Cur, jobId).S)
  /\ UNCHANGED nextId

\* GET result/:jobId
GetJobResult ==
  /\ \E jobId \in Identifiers, read \in ReadOutcomes :
       Becomes(getJobResult(Cur, jobId, read).S)
  /\ UNCHANGED nextId

\* GET metrics
GetSystemMetrics ==
  /\ Becomes(getSystemMetrics(Cur).S)
  /\ UNCHANGED nextId

\* GET (system status): the job groups
GetAllJobs ==
  /\ Becomes(getAllJobs(Cur).S)
  /\ UNCHANGED nextId

\* an hour passes while the event loop is idle (no callback is waiting)
Tick ==
  /\ immediates = <<>>
  /\ now < MaxTicks * HourMs
  /\ now' = now + HourMs
  /\ UNCHANGED <<jobs, jobQueue, isProcessing, systemMetrics, immediates,
                 nextId, genLog, unhandled, detached>>
  /\ UNCHANGED ticketVars

\* the write path; the read operations change nothing and are taken up in
\* RetentionSpec
Next == CreateReportJob \/ RunProcessQueue \/ RunReport \/ Tick

Spec == Init /\ [][Next]_vars

\* RunReport is enabled exactly when a report callback heads the queue
ReportWaiting == immediates # <<>> /\ Head(immediates).kind = "report"

\* The event loop runs every callback that was handed to setImmediate: weak
\* fairness of both kinds of turn.  For RunReport it is written out,
\* WF_vars(A) == []<>~ENABLED <<A>>_vars \/ []<><<A>>_vars, with ReportWaiting
\* for ENABLED <<RunReport>>_vars.
FairSpec ==
  /\ Spec
  /\ WF_vars(RunProcessQueue)
  /\ ([]<>(~ReportWaiting) \/ []<><<RunReport>>_vars)

(* ----------------- one more submission, fewer inputs ------------------ *)
\* ReportsService.createJob('accounts') called directly, with a latency of
\* 1 ms; one more call than CreateReportJob makes.  The identifiers drawn
\* begin with eight characters of their own
CreateAccountsJob ==
  /\ nextId <= MaxJobs + 1
  /\ Becomes(createJob(Cur, Uuid(nextId, nextId), "accounts", 1))
  /\ nextId' = nextId + 1

\* an hour passes while callbacks are waiting for their turn (the event loop
\* is busy with other work of the process)
Wait ==
  /\ immediates # <<>>
  /\ now < MaxTicks * HourMs
  /\ now' = now + HourMs
  /\ UNCHANGED <<jobs, jobQueue, isProcessing, systemMetrics, immediates,
                 nextId, genLog, unhandled, detached>>
  /\ UNCHANGED ticketVars

RetentionNext ==
  \/ CreateAccountsJob \/ RunProcessQueue \/ RunReport \/ Tick \/ Wait
  \/ GetJobStatus \/ GetJobResult \/ GetSystemMetrics \/ GetAllJobs

\* the service as its callers see it, driven by accounts jobs only: long
\* enough for a job to finish after an earlier record was evicted, with time
\* passing while jobs wait, and with the read operations
RetentionSpec == Init /\ [][RetentionNext]_vars

\* the time a report takes when the clock may stand still between the two
\* readings of processJob
Latencies == {0, 2}

\* the report callback, as RunReport, with the report taking a time in Latencies
RunReportTimed ==
  /\ immediates # <<>>
  /\ Head(immediates).kind = "report"
  /\ \E outcome \in Outcomes, d \in Latencies, e \in CatchDelays :
       Becomes(reportCallback([Cur EXCEPT !.immediates = Tail(@)],
                              Head(immediates).job, Head(immediates).type,
                              outcome, d, e))
  /\ UNCHANGED nextId

\* wall-clock cost of a createJob call: a usual one, and one for which the
\* improvement, 98.05, lies halfway between two numbers of tenths
SubmitLatencies == {1, 195}

\* ReportsService.createJob('accounts') called directly, with any identifier
\* randomUUID() may return and a latency in SubmitLatencies
CreateAccountsJobTimed ==
  /\ nextId <= MaxJobs
  /\ \E first8 \in Slices(Cur, nextId), responseTime \in SubmitLatencies :
       Becomes(createJob(Cur, Uuid(nextId, first8), "accounts", responseTime))
  /\ nextId' = nextId + 1

LatencyNext == CreateAccountsJobTimed \/ RunProcessQueue \/ RunReportTimed

\* the service driven by accounts jobs whose processing latency may be 0,
\* whose identifiers may begin alike and whose submissions may take long
LatencySpec == Init /\ [][LatencyNext]_vars

(* -------------------------- tickets controller ------------------------ *)
\* The controller's create is an async function: each `await` of a database
\* call is one step, in which the database executes the statement and the
\* function runs on to its next await, return or throw.  Calls interleave at
\* their awaits.  The database is PostgreSQL at its default isolation, READ
\* COMMITTED: a statement sees the rows committed before it, and the writes
\* of a transaction take effect for others when it commits.

reportVars == <<jobs, jobQueue, isProcessing, systemMetrics, immediates, now,
                nextId, genLog, unhandled, detached>>

TicketType == {"managementReport", "registrationAddressChange", "strikeOff"}
\* what a caller may send as the body's type
BodyTypes == TicketType \cup {"other"}
UserRole == {"accountant", "corporateSecretary", "director"}
Companies == {1, 2}
Calls == 1..MaxCalls

\* ConflictException(message); the message is a text or, where the code builds
\* it from a template, the parts of the template in order
Conflict(message) == [kind |-> "ConflictException", message |-> message]
\* an error raised by the database inside the strikeOff transaction
DatabaseError == [kind |-> "DatabaseError"]
NoResult == [kind |-> "pending"]
NoTransaction == [resolved |-> {}, inserted |-> 0]

\* the ticketDto a successful create returns
TicketDto(id, row) ==
  [kind |-> "ticketDto", id |-> id, type |-> row.type,
   assigneeId |-> row.assigneeId, status |-> row.status,
   category |-> row.category, companyId |-> row.companyId]

\* the row Ticket.create inserts
TicketRow(call) ==
  [companyId |-> call.companyId, assigneeId |-> call.assignee,
   category |-> call.category, type |-> call.type, status |-> "open"]

\* User.findAll({ where: { companyId, role }, order: [['createdAt', 'DESC']] })
\* as the ids of the rows found, most recently created first
UserFindAll(companyId, role) ==
  LET found == SelectSeq([i \in 1..Len(users) |-> i],
                         LAMBDA i : users[i].companyId = companyId /\ users[i].role = role)
  IN [k \in 1..Len(found) |-> found[Len(found) + 1 - k]]

\* the committed open tickets of a company
OpenTickets(companyId) ==
  {id \in DOMAIN tickets :
     tickets[id].companyId = companyId /\ tickets[id].status = "open"}

\* Ticket.findOne({ where: { companyId, type: registrationAddressChange,
\* status: open } }) finds a row
TicketFindOne(companyId) ==
  \E id \in OpenTickets(companyId) : tickets[id].type = "registrationAddressChange"

Throw(call, error) == [call EXCEPT !.pc = "done", !.result = error]

\* create up to its first await
createBegin(type, companyId) ==
  LET call == [pc |-> "start", type |-> type, companyId |-> companyId,
               category |-> "none", assignee |-> 0, tx |-> NoTransaction,
               result |-> NoResult]
  IN IF type = "registrationAddressChange"
     THEN [call EXCEPT !.pc = "findOne"]
     ELSE IF type = "managementReport"
     THEN [call EXCEPT !.category = "accounting", !.pc = "findAccountants"]
     ELSE IF type = "strikeOff"
     THEN [call EXCEPT !.category = "management", !.pc = "findDirectors"]
     ELSE Throw(call, Conflict(<<"Unsupported ticket type: ", type>>))

\* create once an assignee is chosen, up to its next await
withAssignee(call, assignee) ==
  [call EXCEPT !.assignee = assignee,
               !.pc = IF call.type = "strikeOff" THEN "transaction" ELSE "create"]

\* the duplicate check after Ticket.findOne has answered
afterFindOne(call, existingTicket) ==
  IF existingTicket
  THEN Throw(call, Conflict("Company already has an active registrationAddressChange ticket"))
  ELSE [call EXCEPT !.category = "corporate", !.pc = "findSecretaries"]

\* variant: the accountant created first is taken
afterFindAccountantsOldest(call, assignees) ==
  IF Len(assignees) = 0
  THEN Throw(call, Conflict("Cannot find user with role accountant to create a ticket"))
  ELSE withAssignee(call, assignees[Len(assignees)])

afterFindAccountants(call, assignees) ==
  IF Len(assignees) = 0
  THEN Throw(call, Conflict("Cannot find user with role accountant to create a ticket"))
  ELSE withAssignee(call, assignees[1])

\* variant: with several corporate secretaries the most recent one is taken
afterFindSecretariesFirst(call, corporateSecretaries) ==
  IF Len(corporateSecretaries) >= 1
  THEN withAssignee(call, corporateSecretaries[1])
  ELSE [call EXCEPT !.pc = "findDirectors"]

afterFindSecretaries(call, corporateSecretaries) ==
  IF Len(corporateSecretaries) > 1
  THEN Throw(call, Conflict("Multiple users with role corporateSecretary. Cannot create a ticket"))
  ELSE IF Len(corporateSecretaries) = 1
  THEN withAssignee(call, corporateSecretaries[1])
  ELSE [call EXCEPT !.pc = "findDirectors"]

afterFindDirectors(call, directors) ==
  IF Len(directors) > 1
  THEN Throw(call, Conflict("Multiple users with role director. Cannot create a ticket"))
  ELSE IF Len(directors) = 1
  THEN withAssignee(call, directors[1])
  ELSE IF call.type = "strikeOff"
  THEN Throw(call, Conflict("Cannot find user with role director to create a ticket"))
  ELSE Throw(call, Conflict("Cannot find user with role corporateSecretary or director to create a ticket"))

(* ---------------------------- ticket actions -------------------------- *)
\* User.create({ role, companyId })
CreateUser ==
  /\ Len(users) < MaxUsers
  /\ \E companyId \in Companies, role \in UserRole :
       users' = Append(users, [companyId |-> companyId, role |-> role])
  /\ UNCHANGED <<tickets, ticketSeq, calls>>
  /\ UNCHANGED reportVars

\* POST api/v1/tickets arrives: create runs to its first await
CreateTicket ==
  /\ \E c \in Calls, type \in BodyTypes, companyId \in Companies :
       /\ calls[c].pc = "idle"
       /\ \A k \in 1..(c - 1) : calls[k].pc # "idle"
       /\ calls' = [calls EXCEPT ![c] = createBegin(type, companyId)]
  /\ UNCHANGED <<users, tickets, ticketSeq>>
  /\ UNCHANGED reportVars

\* `await Ticket.findOne(...)` of the duplicate check
FindExistingTicket ==
  /\ \E c \in Calls :
       /\ calls[c].pc = "findOne"
       /\ calls' = [calls EXCEPT ![c] =
                      afterFindOne(@, TicketFindOne(calls[c].companyId))]
  /\ UNCHANGED <<users, tickets, ticketSeq>>
  /\ UNCHANGED reportVars

\* `await User.findAll(...)` for the accountants
FindAccountants ==
  /\ \E c \in Calls :
       /\ calls[c].pc = "findAccountants"
       /\ calls' = [calls EXCEPT ![c] =
                      afterFindAccountants(@, UserFindAll(calls[c].companyId, "accountant"))]
  /\ UNCHANGED <<users, tickets, ticketSeq>>
  /\ UNCHANGED reportVars

\* `await User.findAll(...)` for the corporate secretaries
FindSecretaries ==
  /\ \E c \in Calls :
       /\ calls[c].pc = "findSecretaries"
       /\ calls' = [calls EXCEPT ![c] =
                      afterFindSecretaries(@, UserFindAll(calls[c].companyId, "corporateSecretary"))]
  /\ UNCHANGED <<users, tickets, ticketSeq>>
  /\ UNCHANGED reportVars

\* `await User.findAll(...)` for the directors
FindDirectors ==
  /\ \E c \in Calls :
       /\ calls[c].pc = "findDirectors"
       /\ calls' = [calls EXCEPT ![c] =
                      afterFindDirectors(@, UserFindAll(calls[c].companyId, "director"))]
  /\ UNCHANGED <<users, tickets, ticketSeq>>
  /\ UNCHANGED reportVars

\* `await Ticket.create({...})` outside a transaction, and the return
TicketCreate ==
  /\ \E c \in Calls :
       /\ calls[c].pc = "create"
       /\ ticketSeq' = ticketSeq + 1
       /\ tickets' = (ticketSeq' :> TicketRow(calls[c])) @@ tickets
       /\ calls' = [calls EXCEPT ![c].pc = "done",
                                  ![c].result = TicketDto(ticketSeq', TicketRow(calls[c]))]
  /\ UNCHANGED users
  /\ UNCHANGED reportVars

\* `await Ticket.sequelize.transaction()`
BeginTransaction ==
  /\ \E c \in Calls :
       /\ calls[c].pc = "transaction"
       /\ calls' = [calls EXCEPT ![c].pc = "update"]
  /\ UNCHANGED <<users, tickets, ticketSeq>>
  /\ UNCHANGED reportVars

\* variant: Ticket.update is called without the transaction option, so it
\* takes effect at once
TransactionUpdateAutocommit ==
  /\ \E c \in Calls, ok \in BOOLEAN :
       /\ calls[c].pc = "update"
       /\ IF ok
          THEN /\ tickets' = [id \in DOMAIN tickets |->
                               IF id \in OpenTickets(calls[c].companyId)
                               THEN [tickets[id] EXCEPT !.status = "resolved"]
                               ELSE tickets[id]]
               /\ calls' = [calls EXCEPT ![c].pc = "insert"]
          ELSE /\ tickets' = tickets
               /\ calls' = [calls EXCEPT ![c].pc = "rollback"]
  /\ UNCHANGED <<users, ticketSeq>>
  /\ UNCHANGED reportVars

\* `await Ticket.update({ status: resolved }, { where: { companyId, status:
\* open }, transaction })`: the rows it matches, or a database error
TransactionUpdate ==
  /\ \E c \in Calls, ok \in BOOLEAN :
       /\ calls[c].pc = "update"
       /\ calls' = [calls EXCEPT ![c] =
                      IF ok
                      THEN [@ EXCEPT !.tx.resolved = OpenTickets(calls[c].companyId),
                                     !.pc = "insert"]
                      ELSE [@ EXCEPT !.pc = "rollback"]]
  /\ UNCHANGED <<users, tickets, ticketSeq>>
  /\ UNCHANGED reportVars

\* `await Ticket.create({...}, { transaction })`: the id is drawn from the
\* sequence, the row stays invisible to others until the commit
TransactionCreate ==
  /\ \E c \in Calls, ok \in BOOLEAN :
       /\ calls[c].pc = "insert"
       /\ IF ok
          THEN /\ ticketSeq' = ticketSeq + 1
               /\ calls' = [calls EXCEPT ![c].tx.inserted = ticketSeq',
                                          ![c].pc = "commit"]
          ELSE /\ ticketSeq' = ticketSeq
               /\ calls' = [calls EXCEPT ![c].pc = "rollback"]
  /\ UNCHANGED <<users, tickets>>
  /\ UNCHANGED reportVars

\* `await transaction.commit()` and the return: the writes take effect
TransactionCommit ==
  /\ \E c \in Calls, ok \in BOOLEAN :
       /\ calls[c].pc = "commit"
       /\ IF ok
          THEN LET tx == calls[c].tx
                   resolved == [id \in DOMAIN tickets |->
                                  IF id \in tx.resolved
                                  THEN [tickets[id] EXCEPT !.status = "resolved"]
                                  ELSE tickets[id]]
               IN /\ tickets' = (tx.inserted :> TicketRow(calls[c])) @@ resolved
                  /\ calls' = [calls EXCEPT ![c].pc = "done",
                                             ![c].result =
                                               TicketDto(tx.inserted, TicketRow(calls[c]))]
          ELSE /\ tickets' = tickets
               /\ calls' = [calls EXCEPT ![c].pc = "rollback"]
  /\ UNCHANGED <<users, ticketSeq>>
  /\ UNCHANGED reportVars

\* the catch block: `await transaction.rollback(); throw error`
TransactionRollback ==
  /\ \E c \in Calls :
       /\ calls[c].pc = "rollback"
       /\ calls' = [calls EXCEPT ![c] =
                      Throw([@ EXCEPT !.tx = NoTransaction], DatabaseError)]
  /\ UNCHANGED <<users, tickets, ticketSeq>>
  /\ UNCHANGED reportVars

TicketNext ==
  \/ CreateUser \/ CreateTicket
  \/ FindExistingTicket \/ FindAccountants \/ FindSecretaries \/ FindDirectors
  \/ TicketCreate
  \/ BeginTransaction \/ TransactionUpdate \/ TransactionCreate
  \/ TransactionCommit \/ TransactionRollback

TicketSpec == Init /\ [][TicketNext]_vars

(* ------------------------------ properties ---------------------------- *)
Terminal == {"completed", "failed"}
Tracked == DOMAIN jobs
StatusOf(id) == IF id \in Tracked THEN jobs[id].status ELSE "untracked"

\* C1: under a fair event loop every accepted job reaches completed or failed,
\* whatever the loop was doing when it was submitted and however many earlier
\* jobs failed, and once work exists the loop ends with an empty queue and
\* isProcessing false
C1_EveryJobTerminates ==
  /\ \A id \in JobIds :
       (StatusOf(id) \in {"pending", "processing"}) ~> (StatusOf(id) \in Terminal)
  /\ (jobQueue # <<>> \/ isProcessing) ~> (jobQueue = <<>> /\ ~isProcessing)
  /\ [](immediates = <<>> => (jobQueue = <<>> /\ ~isProcessing))

\* a job submitted while the loop was active, after an earlier job failed, is done
C1_Witness ==
  /\ 1 \in Tracked /\ 2 \in Tracked
  /\ jobs[1].status = "failed"
  /\ jobs[2].timestamps.created < jobs[1].timestamps.completed
  /\ jobs[2].timestamps.created > jobs[1].timestamps.started
  /\ jobs[2].status = "completed"
  /\ ~isProcessing /\ jobQueue = <<>>

\* C2: a record's status changes only pending -> processing,
\* processing -> completed or processing -> failed
C2_StatusTransitions ==
  [][\A id \in Tracked \cap DOMAIN jobs' :
       \/ jobs'[id].status = jobs[id].status
       \/ jobs[id].status = "pending" /\ jobs'[id].status = "processing"
       \/ jobs[id].status = "processing" /\ jobs'[id].status \in Terminal]_vars

\* both terminal states have been reached
C2_Witness ==
  \E a \in Tracked, b \in Tracked :
    jobs[a].status = "completed" /\ jobs[b].status = "failed"

\* C3: at most one record is processing, and a processQueue start that finds
\* isProcessing true changes nothing but the callback queue
C3_SingleWorker ==
  /\ [](Cardinality({id \in Tracked : jobs[id].status = "processing"}) <= 1)
  /\ [][(RunProcessQueue /\ isProcessing) =>
          UNCHANGED <<jobs, jobQueue, isProcessing, systemMetrics, now, genLog,
                      unhandled, detached>>]_vars

\* a second scheduled start is about to run while the loop is active and
\* another job is waiting
C3_Witness ==
  /\ isProcessing
  /\ jobQueue # <<>>
  /\ \E i \in 1..Len(immediates) : immediates[i].kind = "processQueue"
  /\ \E id \in Tracked : jobs[id].status = "processing"

\* C4: the step of createJob leaves the new record pending, with no started or
\* completed timestamp and no result path, and moves no record to processing
C4_PendingOnReturn ==
  [][nextId' # nextId =>
       /\ nextId \in DOMAIN jobs'
       /\ jobs'[nextId].status = "pending"
       /\ jobs'[nextId].timestamps.started = NoTime
       /\ jobs'[nextId].timestamps.completed = NoTime
       /\ jobs'[nextId].resultPaths = <<>>
       /\ \A id \in Tracked : jobs'[id].status = jobs[id].status]_vars

\* createJob has just returned for a job submitted while the loop was idle
C4_Witness ==
  /\ nextId > 1 /\ (nextId - 1) \in Tracked
  /\ jobs[nextId - 1].status = "pending"
  /\ ~isProcessing
  /\ immediates # <<>> /\ immediates[Len(immediates)].kind = "processQueue"

\* the result paths a completed job of the given type must carry
ExpectedPaths(type, jobId) ==
  IF type = "all"
  THEN <<OutputFile("accounts", jobId), OutputFile("yearly", jobId),
         OutputFile("fs", jobId)>>
  ELSE <<OutputFile(type, jobId)>>

\* C6: a completed record has exactly one result location of its own kind, or
\* for kind all exactly three: accounts, yearly, fs, in that order
C6_CompletedResultPaths ==
  \A id \in Tracked :
    jobs[id].status = "completed" =>
      jobs[id].resultPaths = ExpectedPaths(jobs[id].type, jobs[id].jobId)

\* a completed job of kind all and a completed single-kind job are tracked
C6_Witness ==
  \E a \in Tracked, b \in Tracked :
    /\ jobs[a].type = "all" /\ jobs[a].status = "completed"
    /\ jobs[b].type = "yearly" /\ jobs[b].status = "completed"

\* C7: a failed record has no result locations
C7_FailedHasNoResultPaths ==
  \A id \in Tracked : jobs[id].status = "failed" => jobs[id].resultPaths = <<>>

\* the report-generator calls made for one job, in order
SubLog(id) == SelectSeq(genLog, LAMBDA r : r.job = id)

\* C8: a record carries an error message exactly when it is failed, the message
\* is the one raised by the generator call that failed, and no error leaves
\* processQueue
C8_ErrorMessage ==
  /\ \A id \in Tracked :
       /\ (jobs[id].errorMessage # NoError) <=> (jobs[id].status = "failed")
       /\ jobs[id].status = "failed" =>
            LET L == SubLog(id)
            IN /\ L # <<>>
               /\ L[Len(L)].outcome \in ErrorMessages
               /\ jobs[id].errorMessage = L[Len(L)].outcome
  /\ ~unhandled

\* two jobs failed with different errors, each recorded on its own record
C8_Witness ==
  \E a \in Tracked, b \in Tracked :
    /\ jobs[a].status = "failed" /\ jobs[a].errorMessage = "ENOENT"
    /\ jobs[b].status = "failed" /\ jobs[b].errorMessage = "EACCES"

AllOrder == <<"accounts", "yearly", "fs">>

\* C9: the sub-executions of an all job run one at a time in the order
\* accounts, yearly, fs; after a failing sub-execution none follows and the
\* record is failed with that error
C9_AllSequence ==
  /\ Cardinality({i \in 1..Len(immediates) : immediates[i].kind = "report"}) <= 1
  /\ \A id \in JobIds :
       LET L == SubLog(id)
       IN (L # <<>> /\ L[1].jobType = "all") =>
            /\ Len(L) <= Len(AllOrder)
            /\ \A k \in 1..Len(L) : L[k].type = AllOrder[k]
            /\ \A k \in 1..(Len(L) - 1) : L[k].outcome = "ok"
            /\ L[Len(L)].outcome # "ok" =>
                 /\ \A i \in 1..Len(immediates) :
                      immediates[i].kind = "report" => immediates[i].job # id
                 /\ id \in Tracked =>
                      /\ jobs[id].status = "failed"
                      /\ jobs[id].errorMessage = L[Len(L)].outcome

\* an all job whose second sub-execution failed
C9_Witness ==
  \E id \in Tracked :
    /\ jobs[id].type = "all"
    /\ Len(SubLog(id)) = 2
    /\ SubLog(id)[2].outcome = "EACCES"
    /\ jobs[id].status = "failed"

\* kinds a caller sends that are not one of accounts, yearly, fs, all
InvalidKinds == RequestTypes \ (ReportTypes \cup {Absent})

\* C10: a submission whose kind is not one of accounts, yearly, fs, all fails
\* with an invalid-kind error and leaves the registry, the submission queue and
\* the system metrics unchanged
C10_InvalidKindRejected ==
  [][\A type \in InvalidKinds, responseTime \in ResponseTimes :
       createReportJob(type, responseTime) =>
         /\ createReportJobResult(type, nextId).kind = "BadRequest"
         /\ UNCHANGED <<jobs, jobQueue, systemMetrics>>]_vars

\* C11: getJobResult answers 'Job not found' for an identifier that is not in
\* the registry (never issued, or evicted), a failure naming the current status
\* for a pending, processing or failed job, and success only for a completed job
C11_GetJobResult ==
  \A id \in Identifiers, read \in ReadOutcomes :
    LET r == getJobResult(Cur, id, read).ret
    IN /\ id \notin Tracked =>
            r = [success |-> FALSE, error |-> <<"Job not found">>]
       /\ (id \in Tracked /\ jobs[id].status \in {"pending", "processing", "failed"}) =>
            r = [success |-> FALSE, error |-> <<"Job status: ", jobs[id].status>>]
       /\ r.success => (id \in Tracked /\ jobs[id].status = "completed")

\* the result of an evicted job, of a failed job and of a never issued
\* identifier are asked for
C11_Witness ==
  /\ nextId > 2 /\ 1 \notin Tracked
  /\ 2 \in Tracked /\ jobs[2].status = "failed"
  /\ getJobResult(Cur, 1, "ok").ret.error = <<"Job not found">>
  /\ getJobResult(Cur, 2, "ok").ret.error = <<"Job status: ", "failed">>
  /\ getJobResult(Cur, MaxJobs + 1, "ok").ret.error = <<"Job not found">>

\* the part of the service state a read must leave alone
ServiceState(S) ==
  <<S.jobs, S.jobQueue, S.isProcessing, S.systemMetrics>>

\* C12: getJobStatus returns the tracked record for a known identifier and
\* null for any other, and getJobStatus, getJobResult, getAllJobs and
\* getSystemMetrics leave the registry, the submission queue, isProcessing and
\* the system metrics unchanged
C12_ReadsArePure ==
  /\ \A id \in Identifiers :
       /\ getJobStatus(Cur, id).ret = (IF id \in Tracked THEN jobs[id] ELSE Null)
       /\ ServiceState(getJobStatus(Cur, id).S) = ServiceState(Cur)
       /\ \A read \in ReadOutcomes :
            ServiceState(getJobResult(Cur, id, read).S) = ServiceState(Cur)
  /\ ServiceState(getAllJobs(Cur).S) = ServiceState(Cur)
  /\ ServiceState(getSystemMetrics(Cur).S) = ServiceState(Cur)

\* a processing job, a waiting job and an unknown identifier are looked up
\* while the loop is active
C12_Witness ==
  /\ isProcessing /\ jobQueue # <<>>
  /\ \E id \in Tracked : getJobStatus(Cur, id).ret.status = "processing"
  /\ getJobStatus(Cur, MaxJobs + 1).ret = Null
  /\ systemMetrics.totalJobsProcessed = 0

\* C13: a value returned by getSystemMetrics is an immutable snapshot: no step
\* taken after it was returned changes what its holder reads from any of its
\* fields, the fields of its legacy-comparison block included
C13_SnapshotImmutable ==
  [][ReadSnapshot(getSystemMetrics(Cur).ret, systemMetrics') =
       ReadSnapshot(getSystemMetrics(Cur).ret, systemMetrics)]_vars

\* C14: after n createJob calls averageResponseTime is the arithmetic mean of
\* their n recorded latencies, whatever completions came in between.  Stated
\* step by step: the n-th call, of latency L, takes the mean of n - 1 latencies
\* to (mean * (n - 1) + L) / n
C14_AverageResponseTime ==
  [][nextId' # nextId =>
       LET n == nextId
           L == now' - now
           mean == systemMetrics.averageResponseTime
       IN systemMetrics'.averageResponseTime =
            Over(Plus(Times(mean, n - 1), FromInt(L)), n)]_vars

\* every job submitted so far has reached a terminal state (an evicted record
\* was terminal when it was evicted)
AllSubmittedDone ==
  /\ nextId > 1
  /\ \A id \in Tracked : jobs[id].status \in Terminal

\* the number of jobs that failed so far: a job fails with its first failing
\* report-generator call
FailedSoFar == Cardinality({k \in 1..Len(genLog) : genLog[k].outcome # "ok"})

\* C15: once all N submitted jobs are terminal, successRate is 100 if every
\* report-generator call succeeded and (N - 1) / N * 100 if exactly one of the
\* N jobs failed
C15_SuccessRate ==
  AllSubmittedDone =>
    LET N == nextId - 1
    IN /\ FailedSoFar = 0 => systemMetrics.successRate = FromInt(100)
       /\ FailedSoFar = 1 =>
            systemMetrics.successRate = Times(Over(FromInt(N - 1), N), 100)

\* the record's completion timestamp is older than the retention horizon at
\* time t
PastHorizon(job, t) ==
  /\ job.timestamps.completed # NoTime
  /\ job.timestamps.completed # 0
  /\ job.timestamps.completed < t - HourMs

\* C16: once a record's completion timestamp is older than the one-hour
\* horizon, getJobStatus and getJobResult report its identifier as not found,
\* while a record completed within the horizon is not removed
C16_RetentionHorizon ==
  /\ [](\A id \in Tracked :
          PastHorizon(jobs[id], now) =>
            /\ getJobStatus(Cur, id).ret = Null
            /\ \A read \in ReadOutcomes :
                 getJobResult(Cur, id, read).ret =
                   [success |-> FALSE, error |-> <<"Job not found">>])
  /\ [][\A id \in Tracked :
          id \notin DOMAIN jobs' => PastHorizon(jobs[id], now')]_vars

\* C17: the retention sweep never removes a pending or processing record,
\* however long it has been tracked, and a processing record stays processing
\* for as long as its report-generator call has not returned
C17_UnfinishedNeverSwept ==
  [][\A id \in Tracked :
       /\ jobs[id].status \in {"pending", "processing"} => id \in DOMAIN jobs'
       /\ (jobs[id].status = "processing" /\ genLog' = genLog) =>
            jobs'[id].status = "processing"]_vars

\* a record created more than an hour ago is still pending after the sweep
\* that followed a later completion
C17_Witness ==
  \E a \in Tracked, b \in Tracked :
    /\ jobs[a].status = "pending"
    /\ jobs[a].timestamps.created < now - HourMs
    /\ jobs[b].timestamps.completed # NoTime
    /\ jobs[b].timestamps.completed > jobs[a].timestamps.created + HourMs

\* the identifiers createJob has issued so far
Issued == 1..(nextId - 1)

\* C18: an issued identifier that is no longer in the registry is never in the
\* registry again: getJobStatus returns null for it and getJobResult returns
\* 'Job not found', both as plain values
C18_NeverResurrected ==
  /\ [](\A id \in Issued \ Tracked :
          /\ getJobStatus(Cur, id).ret = Null
          /\ \A read \in ReadOutcomes :
               getJobResult(Cur, id, read).ret =
                 [success |-> FALSE, error |-> <<"Job not found">>])
  /\ [][\A id \in Issued \ Tracked : id \notin DOMAIN jobs']_vars

\* the first record was evicted, and a job was submitted after the eviction
C18_Witness ==
  /\ 1 \in Issued \ Tracked
  /\ {2, 3} \subseteq Tracked
  /\ jobs[2].timestamps.completed # NoTime
  /\ jobs[3].timestamps.created >= jobs[2].timestamps.completed
  /\ getJobStatus(Cur, 1).ret = Null

Statuses == {"pending", "processing", "completed", "failed"}

\* C19: getAllJobs returns the four groups pending, processing, completed and
\* failed; every tracked record is in exactly one place, in the group of its
\* status, so the group sizes add up to the number of tracked records, and
\* within a group the records are in submission order
C19_GetAllJobs ==
  LET g == getAllJobs(Cur).ret
      places(id) == {<<st, k>> \in Statuses \X (1..Cardinality(Tracked)) :
                       k <= Len(g[st]) /\ g[st][k].jobId.serial = id}
  IN /\ DOMAIN g = Statuses
     /\ \A id \in Tracked :
          /\ Cardinality(places(id)) = 1
          /\ \A pl \in places(id) :
               pl[1] = jobs[id].status /\ g[pl[1]][pl[2]] = jobs[id]
     /\ Len(g.pending) + Len(g.processing) + Len(g.completed) + Len(g.failed)
          = Cardinality(Tracked)
     /\ \A st \in Statuses : \A k, l \in 1..Len(g[st]) :
          k < l => g[st][k].timestamps.created < g[st][l].timestamps.created

\* two records share a group while a third group is occupied as well
C19_Witness ==
  LET g == getAllJobs(Cur).ret
  IN /\ Len(g.pending) = 2
     /\ Len(g.failed) = 1
     /\ Cardinality(Tracked) = 3

\* C20: every company has at most one registrationAddressChange ticket with
\* status open at any time, also when two create calls for the same company
\* interleave their database reads and writes
C20_SingleOpenAddressChange ==
  \A companyId \in Companies :
    Cardinality({id \in OpenTickets(companyId) :
                   tickets[id].type = "registrationAddressChange"}) <= 1

\* the tickets of a company that are open in the table t
OpenIn(t, companyId) ==
  {id \in DOMAIN t : t[id].companyId = companyId /\ t[id].status = "open"}

\* C21: when a strikeOff create for company c succeeds, every ticket of c that
\* was open before is resolved, the new strikeOff ticket is the only open
\* ticket of c, and no ticket of another company has changed
C21_StrikeOffResolvesAll ==
  [][\A c \in Calls :
       (calls[c].pc = "commit" /\ calls'[c].pc = "done") =>
         /\ OpenIn(tickets', calls[c].companyId) = {calls[c].tx.inserted}
         /\ tickets'[calls[c].tx.inserted].type = "strikeOff"
         /\ \A id \in DOMAIN tickets :
              tickets[id].companyId # calls[c].companyId => tickets'[id] = tickets[id]]_vars

\* call c returns or throws in this step
Completes(c) == calls[c].pc # "done" /\ calls'[c].pc = "done"

\* C22: a create call that fails, with a conflict error or with a database
\* error inside the strikeOff transaction, creates no ticket and changes no
\* ticket's status: the table changes only in the step in which a call
\* succeeds, and then the resolve-all update and the insert take effect together
C22_FailedCreateChangesNothing ==
  /\ [](\A id \in DOMAIN tickets :
          \E c \in Calls : calls[c].pc = "done" /\ calls[c].result.kind = "ticketDto"
                            /\ calls[c].result.id = id)
  /\ [][\A c \in Calls :
          (Completes(c) /\ calls'[c].result.kind # "ticketDto") => tickets' = tickets]_vars
  /\ [][tickets' # tickets =>
          \E c \in Calls :
            /\ Completes(c) /\ calls'[c].result.kind = "ticketDto"
            /\ calls'[c].result.id \in DOMAIN tickets' \ DOMAIN tickets
            /\ \A id \in calls[c].tx.resolved : tickets'[id].status = "resolved"]_vars

\* a strikeOff create has failed with a database error while its company had
\* an open ticket, which is still open
C22_Witness ==
  \E c \in Calls :
    /\ calls[c].pc = "done" /\ calls[c].result = DatabaseError
    /\ calls[c].type = "strikeOff"
    /\ OpenTickets(calls[c].companyId) # {}

\* the users of a company that have a role
CompanyUsers(companyId, role) ==
  {i \in 1..Len(users) : users[i].companyId = companyId /\ users[i].role = role}

\* call c takes a step from the await it stands at
Steps(c, pc) == calls[c].pc = pc /\ calls'[c] # calls[c]

IsConflict(call) == call.pc = "done" /\ call.result.kind = "ConflictException"

\* C23: a registrationAddressChange ticket is assigned to the company's
\* corporate secretary when there is exactly one, with or without directors;
\* when there is none, to its single director; the call fails with a conflict
\* when there are several corporate secretaries, or none and no director or
\* several directors
C23_AddressChangeAssignee ==
  [][\A c \in Calls :
       (calls[c].pc # "idle" /\ calls[c].type = "registrationAddressChange") =>
         LET secretaries == CompanyUsers(calls[c].companyId, "corporateSecretary")
             directors == CompanyUsers(calls[c].companyId, "director")
         IN /\ Steps(c, "findSecretaries") =>
                 /\ Cardinality(secretaries) = 1 =>
                      calls'[c].pc = "create" /\ calls'[c].assignee \in secretaries
                 /\ Cardinality(secretaries) > 1 => IsConflict(calls'[c])
                 /\ secretaries = {} => calls'[c].pc = "findDirectors"
            /\ (Steps(c, "findDirectors") /\ secretaries = {}) =>
                 /\ Cardinality(directors) = 1 =>
                      calls'[c].pc = "create" /\ calls'[c].assignee \in directors
                 /\ Cardinality(directors) # 1 => IsConflict(calls'[c])
            /\ Steps(c, "create") =>
                 /\ calls'[c].result.kind = "ticketDto"
                 /\ tickets'[calls'[c].result.id].type = "registrationAddressChange"
                 /\ tickets'[calls'[c].result.id].assigneeId = calls[c].assignee
                 /\ calls'[c].result.assigneeId = calls[c].assignee]_vars

\* a company with a director and one corporate secretary has a
\* registrationAddressChange ticket, assigned to the corporate secretary
C23_Witness ==
  \E id \in DOMAIN tickets :
    /\ tickets[id].type = "registrationAddressChange"
    /\ CompanyUsers(tickets[id].companyId, "director") # {}
    /\ CompanyUsers(tickets[id].companyId, "corporateSecretary") = {tickets[id].assigneeId}

\* C24: a managementReport ticket is created with category accounting,
\* status open and the most recently created accountant of the company as its
\* assignee; without an accountant the call fails with a conflict
C24_ManagementReportAssignee ==
  [][\A c \in Calls :
       (calls[c].pc # "idle" /\ calls[c].type = "managementReport") =>
         LET accountants == CompanyUsers(calls[c].companyId, "accountant")
         IN /\ Steps(c, "findAccountants") =>
                 /\ accountants = {} => IsConflict(calls'[c])
                 /\ accountants # {} =>
                      /\ calls'[c].pc = "create"
                      /\ calls'[c].assignee \in accountants
                      /\ \A i \in accountants : i <= calls'[c].assignee
            /\ Steps(c, "create") =>
                 /\ calls'[c].result.kind = "ticketDto"
                 /\ calls'[c].result.id \in DOMAIN tickets' \ DOMAIN tickets
                 /\ tickets'[calls'[c].result.id] =
                      [companyId |-> calls[c].companyId, assigneeId |-> calls[c].assignee,
                       category |-> "accounting", type |-> "managementReport",
                       status |-> "open"]
                 /\ calls'[c].result.category = "accounting"
                 /\ calls'[c].result.status = "open"
                 /\ calls'[c].result.assigneeId = calls[c].assignee]_vars

\* a company with two accountants has a managementReport ticket assigned to
\* the one created last
C24_Witness ==
  \E id \in DOMAIN tickets :
    /\ tickets[id].type = "managementReport"
    /\ Cardinality(CompanyUsers(tickets[id].companyId, "accountant")) = 2
    /\ \A i \in CompanyUsers(tickets[id].companyId, "accountant") : i <= tickets[id].assigneeId

\* C25: in every state between two steps of the event loop a record has a
\* started timestamp exactly when it is processing, completed or failed, and a
\* completed timestamp exactly when it is completed or failed
C25_Timestamps ==
  \A id \in Tracked :
    /\ jobs[id].timestamps.started # NoTime <=>
         jobs[id].status \in {"processing", "completed", "failed"}
    /\ jobs[id].timestamps.completed # NoTime <=> jobs[id].status \in Terminal

\* one record is completed and carries both timestamps while another is
\* processing and carries the started timestamp only
C25_Witness ==
  \E a, b \in Tracked :
    /\ jobs[a].status = "completed"
    /\ jobs[a].timestamps.completed >= jobs[a].timestamps.started
    /\ jobs[b].status = "processing"
    /\ jobs[b].timestamps.started # NoTime
    /\ jobs[b].timestamps.completed = NoTime

\* C26: a record that is pending or processing has no result locations, an
\* all job between two of its reports included
C26_NoPathsBeforeCompletion ==
  \A id \in Tracked :
    jobs[id].status \in {"pending", "processing"} => jobs[id].resultPaths = <<>>

\* C27: for every completed or failed record the recorded processing latency
\* is its completed timestamp minus its started timestamp
C27_ProcessingTime ==
  \A id \in Tracked :
    jobs[id].status \in Terminal =>
      jobs[id].metrics.processingTime =
        jobs[id].timestamps.completed - jobs[id].timestamps.started

\* C28: jobs are executed in submission order: when a job accepted after
\* another is no longer pending, the earlier one is completed or failed (or
\* has been removed after that)
C28_SubmissionOrder ==
  \A a, b \in Issued :
    (a < b /\ StatusOf(b) # "pending") => StatusOf(a) \in Terminal \cup {"untracked"}

\* a job of kind all has finished and the job submitted after it, which was
\* already waiting when the first one started, has left pending
C28_Witness ==
  \E a, b \in Tracked :
    /\ a < b
    /\ jobs[a].type = "all"
    /\ jobs[a].status \in Terminal
    /\ jobs[b].status # "pending"
    /\ jobs[b].timestamps.created <= jobs[a].timestamps.started

\* job f is processing and this step ends its processing
Finishes(f) ==
  /\ f \in Tracked
  /\ jobs[f].status = "processing"
  /\ (f \in DOMAIN jobs' => jobs'[f].status # "processing")

\* the record as processQueue's next iteration leaves it when it starts the job
StartedAt(job, t) ==
  [job EXCEPT !.status = "processing", !.timestamps.started = t]

\* C29: after the sweep that follows a processed job no tracked record has a
\* completed timestamp more than an hour before the sweep time; every other
\* record tracked before is still tracked and unchanged (but for being started
\* by the loop's next iteration); the job that has just finished is not
\* removed by its own sweep
C29_Sweep ==
  [][\A f \in Tracked :
       Finishes(f) =>
         /\ f \in DOMAIN jobs'
         /\ jobs'[f].status \in Terminal
         /\ jobs'[f].timestamps.completed = now'
         /\ \A id \in DOMAIN jobs' : ~PastHorizon(jobs'[id], now')
         /\ \A id \in Tracked \ {f} :
              ~PastHorizon(jobs[id], now') =>
                /\ id \in DOMAIN jobs'
                /\ \/ jobs'[id] = jobs[id]
                   \/ /\ jobs[id].status = "pending"
                      /\ jobs'[id] = StartedAt(jobs[id], now')]_vars

\* the sweep after the second job removed the first record, kept the second,
\* which had just finished, and kept the third, which was waiting
C29_Witness ==
  /\ 1 \in Issued \ Tracked
  /\ {2, 3} \subseteq Tracked
  /\ jobs[2].status \in Terminal
  /\ jobs[2].timestamps.completed = now
  /\ jobs[3].timestamps.created < jobs[2].timestamps.completed
  /\ jobs[3].status = "processing"

\* the status a record has when the completion of job f is recorded: the
\* outcome for f itself, and for any other record its status before the step
StatusWhenRecorded(id, f) == IF id = f THEN jobs'[f].status ELSE jobs[id].status

\* C30: when a job's completion is recorded, successRate becomes 100 times the
\* number of completed records divided by the number of completed or failed
\* records, over the records tracked at that moment; it is always between 0
\* and 100, and 0 as long as no job has been processed
C30_SuccessRateRetained ==
  /\ [](/\ AtMost(Zero, systemMetrics.successRate)
        /\ AtMost(systemMetrics.successRate, FromInt(100))
        /\ systemMetrics.totalJobsProcessed = 0 => systemMetrics.successRate = Zero)
  /\ [][\A f \in Tracked :
          (Finishes(f) /\ f \in DOMAIN jobs') =>
            LET done == {id \in Tracked : StatusWhenRecorded(id, f) \in Terminal}
                successful == {id \in done : StatusWhenRecorded(id, f) = "completed"}
            IN systemMetrics'.successRate =
                 Times(Over(FromInt(Cardinality(successful)), Cardinality(done)),
                       100)]_vars

\* the second job completed while the failed first record was still tracked:
\* the rate is 50, and the sweep of the same step removed the first record
C30_Witness ==
  /\ 1 \in Issued \ Tracked
  /\ 2 \in Tracked
  /\ jobs[2].status = "completed"
  /\ jobs[2].timestamps.completed = now
  /\ systemMetrics.totalJobsProcessed = 2
  /\ systemMetrics.successRate = <<50, 1>>

\* this step is a call of createJob
Submits == nextId' # nextId

\* C31: concurrentProcessingCapability never decreases, is at least the number
\* of tracked records, and is the largest number of tracked records there was
\* right after a submission: 0 before the first one, and afterwards raised by
\* submissions only, to the count they leave when that is larger
C31_ConcurrencyHighWater ==
  /\ [](/\ systemMetrics.concurrentProcessingCapability >= Cardinality(Tracked)
        /\ nextId = 1 => systemMetrics.concurrentProcessingCapability = 0)
  /\ [][/\ systemMetrics'.concurrentProcessingCapability >=
             systemMetrics.concurrentProcessingCapability
         /\ systemMetrics'.concurrentProcessingCapability =
             IF Submits
             THEN Max(systemMetrics.concurrentProcessingCapability,
                      Cardinality(DOMAIN jobs'))
             ELSE systemMetrics.concurrentProcessingCapability]_vars

\* three records were tracked at once, one has been removed since, and the
\* high-water mark is still three
C31_Witness ==
  /\ systemMetrics.concurrentProcessingCapability = 3
  /\ Cardinality(Tracked) = 2
  /\ systemMetrics.totalJobsProcessed >= 2

\* the jobs that have reached completed or failed: the tracked terminal
\* records and the issued identifiers the sweep has removed
EverTerminal == {id \in Issued : StatusOf(id) \in Terminal \cup {"untracked"}}

\* C32: totalJobsProcessed is the number of jobs that ever reached completed
\* or failed, evicted records included; it grows by one in the step in which a
\* job reaches a terminal state and does not change otherwise
C32_TotalJobsProcessed ==
  /\ [](systemMetrics.totalJobsProcessed = Cardinality(EverTerminal))
  /\ [][systemMetrics'.totalJobsProcessed =
           systemMetrics.totalJobsProcessed
             + Cardinality({f \in Tracked : Finishes(f)})]_vars

\* three jobs have finished and the first record has been removed
C32_Witness ==
  /\ systemMetrics.totalJobsProcessed = 3
  /\ 1 \in Issued \ Tracked
  /\ \A id \in Tracked : jobs[id].status \in Terminal

\* |tenths / 10 - x| <= 1 / 20, for a number of tenths and a double x below
\* 2^53, each taken as the number it is
WithinHalfTenth(tenths, x) ==
  IF x = Zero THEN tenths = 0
  ELSE LET u == Unpack(x)
           a == NatShiftLeft(NatOf(Abs(tenths)), -u.e)
           b == NatTimes(u.m, 10)
           gap == IF NatLess(a, b) THEN NatSub(b, a) ELSE NatSub(a, b)
       IN /\ u.e < 0
          /\ tenths = 0 \/ (tenths < 0) = u.neg
          /\ ~NatLess(NatShiftLeft(<<1>>, -u.e), NatTimes(gap, 2))

\* the double (avgSyncResponseTime - averageResponseTime) /
\* avgSyncResponseTime * 100 of the metrics m
ImprovementOf(m) ==
  Improvement(m.legacyComparisonData.avgSyncResponseTime, m.averageResponseTime)

LegacyBlockInSync ==
  /\ systemMetrics.legacyComparisonData.avgSyncResponseTime = LegacyBaseline
  /\ systemMetrics.legacyComparisonData.avgAsyncResponseTime =
       systemMetrics.averageResponseTime

\* C33 as stated: the baseline is 10000, avgAsyncResponseTime equals
\* averageResponseTime, and after a submission the improvement percentage,
\* read back as a number, equals (10000 - averageResponseTime) / 10000 * 100
C33_ImprovementExact ==
  /\ LegacyBlockInSync
  /\ nextId > 1 =>
       Over(FromInt(parseFloat(systemMetrics.legacyComparisonData.performanceImprovement)), 10) =
         ImprovementOf(systemMetrics)

\* C33, amended: the baseline is 10000, avgAsyncResponseTime equals
\* averageResponseTime, and after a submission the improvement percentage is
\* (10000 - averageResponseTime) / 10000 * 100 to one decimal place: the two
\* differ by at most 0.05
C33_ImprovementRounded ==
  /\ LegacyBlockInSync
  /\ nextId > 1 =>
       WithinHalfTenth(parseFloat(systemMetrics.legacyComparisonData.performanceImprovement),
                       ImprovementOf(systemMetrics))

\* after a submission the average is 195 ms: the improvement computed is the
\* double nearest to 98.05, which lies below it, and the improvement recorded
\* is '98.0%'
C33_Witness ==
  /\ nextId > 1
  /\ systemMetrics.averageResponseTime = <<195, 1>>
  /\ ImprovementOf(systemMetrics) = Over(FromInt(1961), 20)
  /\ systemMetrics.legacyComparisonData.performanceImprovement = Percent(FALSE, 980, 1)

\* C34: a value getJobStatus returned while the job was pending or
\* processing is not changed by the later transitions of that job: its holder
\* reads the same fields after any step
C34_LookupIsSnapshot ==
  [][\A id \in Tracked :
       jobs[id].status \in {"pending", "processing"} =>
         ReadRecord(id, getJobStatus(Cur, id).ret, jobs', detached') =
           getJobStatus(Cur, id).ret]_vars

\* in this step the processing loop handles the job of record id: the report
\* callback of that job runs, or the loop dequeues it and starts it
LoopHandles(id) ==
  /\ ~Submits
  /\ \/ /\ Len(genLog') = Len(genLog) + 1
        /\ genLog'[Len(genLog')].job = id
     \/ /\ jobQueue # <<>>
        /\ Head(jobQueue) = id
        /\ jobQueue' = Tail(jobQueue)
        /\ id \in DOMAIN jobs /\ id \in DOMAIN jobs'
        /\ jobs[id].status = "pending"
        /\ jobs'[id] = StartedAt(jobs[id], now')

\* C35: an existing record changes only in a step in which the processing
\* loop handles that record's own job, so not by createJob for another job,
\* by the processing of another job, by a lookup or by a metrics update, and
\* its kind, identifier and created timestamp never change
C35_RecordFrame ==
  [][\A id \in Tracked \cap DOMAIN jobs' :
       /\ jobs'[id] # jobs[id] => LoopHandles(id)
       /\ jobs'[id].type = jobs[id].type
       /\ jobs'[id].jobId = jobs[id].jobId
       /\ jobs'[id].timestamps.created = jobs[id].timestamps.created]_vars

\* the third job was submitted while the first was being processed and the
\* second was waiting, and the second record is as createJob made it
C35_Witness ==
  /\ {1, 2, 3} \subseteq Tracked
  /\ jobs[1].status = "processing"
  /\ jobs[3].timestamps.created >= jobs[1].timestamps.started
  /\ jobs[2] = NewJob(jobs[2].jobId, jobs[2].type, jobs[2].timestamps.created,
                      jobs[2].metrics.concurrentJobs - 1)
  /\ jobs[2].timestamps.created < jobs[3].timestamps.created

\* the identifiers in the submission queue
Queued == {jobQueue[i] : i \in 1..Len(jobQueue)}

\* C36: the submission queue holds no identifier twice and holds exactly the
\* identifiers of the tracked pending records; the loop never skips a dequeued
\* identifier: a step that takes from the queue takes its head only, and that
\* job is tracked and started
C36_QueueIsPending ==
  /\ [](/\ Cardinality(Queued) = Len(jobQueue)
        /\ Queued = {id \in Tracked : jobs[id].status = "pending"})
  /\ [][(jobQueue # <<>> /\ ~Submits /\ jobQueue' # jobQueue) =>
           /\ jobQueue' = Tail(jobQueue)
           /\ Head(jobQueue) \in DOMAIN jobs'
           /\ jobs'[Head(jobQueue)].status = "processing"]_vars

\* a sweep has run while the third job, submitted over an hour ago, was
\* waiting: it is still tracked, pending and in the queue
C36_Witness ==
  /\ jobQueue = <<3>>
  /\ jobs[3].status = "pending"
  /\ jobs[3].timestamps.created < now - HourMs
  /\ 1 \in Tracked /\ jobs[1].status \in Terminal
  /\ jobs[1].timestamps.completed > jobs[3].timestamps.created + HourMs

\* the loop is awaiting the job it dequeued: a report callback of a processing
\* job is waiting for its turn, after which the loop checks the queue again
LoopAwaitsJob ==
  /\ isProcessing
  /\ \E i \in 1..Len(immediates) :
       /\ immediates[i].kind = "report"
       /\ StatusOf(immediates[i].job) = "processing"

\* a start of processQueue is scheduled and has not run yet
StartScheduled ==
  /\ ~isProcessing
  /\ \E i \in 1..Len(immediates) : immediates[i].kind = "processQueue"

\* C37: no wake-up is lost: whenever the submission queue is not empty, the
\* loop is active and will check the queue again, or the loop is not active
\* and a start of it is scheduled
C37_NoLostWakeUp ==
  jobQueue # <<>> => (LoopAwaitsJob \/ StartScheduled)

\* a job was submitted after the loop had emptied the queue and cleared
\* isProcessing: a new start is scheduled for it
C37_Witness ==
  /\ jobQueue # <<>>
  /\ StartScheduled
  /\ systemMetrics.totalJobsProcessed >= 1

\* C38: createJob leaves totalJobsProcessed, averageProcessingTime and
\* successRate as they are (of the system metrics it changes only
\* averageResponseTime, the legacy-comparison block and
\* concurrentProcessingCapability), and the recording of a job completion
\* leaves averageResponseTime and the legacy-comparison block as they are
C38_MetricsFrame ==
  [][/\ Submits =>
          /\ systemMetrics'.totalJobsProcessed = systemMetrics.totalJobsProcessed
          /\ systemMetrics'.averageProcessingTime = systemMetrics.averageProcessingTime
          /\ systemMetrics'.successRate = systemMetrics.successRate
          /\ systemMetrics'.memoryEfficiency = systemMetrics.memoryEfficiency
     /\ (\E f \in Tracked : Finishes(f)) =>
          /\ systemMetrics'.averageResponseTime = systemMetrics.averageResponseTime
          /\ systemMetrics'.legacyComparisonData = systemMetrics.legacyComparisonData]_vars

\* the second job was submitted after the first had completed: the counters of
\* the completion are in place next to a response time of two submissions
C38_Witness ==
  /\ nextId = 3
  /\ systemMetrics.totalJobsProcessed = 1
  /\ systemMetrics.successRate = <<100, 1>>
  /\ systemMetrics.averageProcessingTime # <<0, 1>>
  /\ jobs[2].status = "pending"
  /\ jobs[2].timestamps.created >= jobs[1].timestamps.completed

\* C39: averageProcessingTime is the mean of the processing latencies of the
\* jobs that reached a terminal state, latencies of 0 included.  Stated step
\* by step: the n-th completion, of latency P, takes the mean of n - 1
\* latencies to (mean * (n - 1) + P) / n
C39_AverageProcessingTime ==
  [][\A f \in Tracked :
       (Finishes(f) /\ f \in DOMAIN jobs') =>
         LET n == systemMetrics'.totalJobsProcessed
             P == jobs'[f].metrics.processingTime
             mean == systemMetrics.averageProcessingTime
         IN systemMetrics'.averageProcessingTime =
              Over(Plus(Times(mean, n - 1), FromInt(P)), n)]_vars

====
